---- MODULE Spec2Model ----
(***************************************************************************)
(* Model of the sequence-span scripts of wynton-scripts:                   *)
(*   ELELAB_RosettaDDGPprediction/Setup/gen_pdb_span.py                    *)
(*   MutateX/generate_mutatex_position_list.py                             *)
(* Python lists and strings are sequences of one-character strings; a      *)
(* Python call that can raise yields a record [raised, value].             *)
(***************************************************************************)
EXTENDS Integers, Sequences, FiniteSets, TLC

\* ------------------------------------------------------------------ bounds
\* Longest residue sequence handed to the matcher.
MaxSeqLen == 3
\* Longest query motif.
MaxQLen == 2
\* Most residues (hetero ones included) in a structure, over all its chains.
MaxResidues == 2
\* The most lines a mutinfo file has.
MaxLines == 2
\* Longest list of ticks or of tick labels in a call of set_axis.
MaxTicks == 2

\* ---------------------------------------------------------------- alphabets
\* One-letter codes a chain sequence is drawn from.
SeqAlphabet == {"A", "G"}
\* Characters a query is drawn from: standard codes and one outside them.
QueryAlphabet == {"A", "G", "X"}
\* Mismatch budgets: one below zero, and up to the longest query's length.
Budgets == -1 .. MaxQLen

SeqsUpTo(S, n) == UNION {[1..k -> S] : k \in 0..n}

None == "None"
NoException == "none"
IndexError == "IndexError"

\* ------------------------------------------------------- Python primitives
Min(a, b) == IF a <= b THEN a ELSE b

\* s[lo:hi] for lo >= 0: the slice is clamped to the list, never raises.
PySlice(s, lo, hi) == SubSeq(s, lo + 1, Min(hi, Len(s)))

\* s[k] is defined for -len(s) <= k < len(s); a negative k counts from the end.
PyIndexOk(s, k) == -Len(s) <= k /\ k < Len(s)
PyIndex(s, k) == IF k >= 0 THEN s[k + 1] ELSE s[Len(s) + k + 1]

\* -------------------------------------------------------------- the matcher
\* sum(a != b for a, b in zip(seq1, seq2)): zip stops at the shorter one.
RECURSIVE hamming_sum(_, _, _)
hamming_sum(seq1, seq2, k) ==
    IF k > Min(Len(seq1), Len(seq2)) THEN 0
    ELSE (IF seq1[k] # seq2[k] THEN 1 ELSE 0) + hamming_sum(seq1, seq2, k + 1)

\* Faulty variant: the positions that agree are counted.
hamming_distance_agreeing(seq1, seq2) ==
    Min(Len(seq1), Len(seq2)) - hamming_sum(seq1, seq2, 1)

\* Faulty variant: an "X" in either text agrees with any residue.
hamming_distance_wildcard(seq1, seq2) ==
    hamming_sum([k \in 1..Min(Len(seq1), Len(seq2)) |->
                    IF "X" \in {seq1[k], seq2[k]} THEN "X" ELSE seq1[k]],
                [k \in 1..Min(Len(seq1), Len(seq2)) |->
                    IF "X" \in {seq1[k], seq2[k]} THEN "X" ELSE seq2[k]], 1)

hamming_distance(seq1, seq2) == hamming_sum(seq1, seq2, 1)

\* Faulty variant: range(len(sequence) - qlen), the last window is left out.
WindowCountNoPlusOne(sequence, query) == Len(sequence) - Len(query)

\* Faulty variant: range(len(sequence)), a start index for every residue.
WindowCountEveryResidue(sequence, query) == Len(sequence)

\* range(len(sequence) - qlen + 1): the number of window start indices.
WindowCount(sequence, query) == Len(sequence) - Len(query) + 1

\* Faulty variant: sequence[i:i+qlen-1], zip then leaves out the last position.
WindowOneShort(sequence, query, i) == PySlice(sequence, i, i + Len(query) - 1)

\* window = sequence[i:i+qlen]
Window(sequence, query, i) == PySlice(sequence, i, i + Len(query))

\* Faulty variant: mismatches < max_mismatches.
WithinBudgetStrict(mismatches, max_mismatches) == mismatches < max_mismatches

\* Faulty variant: mismatches == max_mismatches.
WithinBudgetExactly(mismatches, max_mismatches) == mismatches = max_mismatches

\* if mismatches <= max_mismatches
WithinBudget(mismatches, max_mismatches) == mismatches <= max_mismatches

\* res_nums[i] and res_nums[i + qlen - 1] raise IndexError when out of range.
MatchIndexOk(res_nums, i, qlen) ==
    PyIndexOk(res_nums, i) /\ PyIndexOk(res_nums, i + qlen - 1)

\* Faulty variant: the end number taken as start + qlen - 1, as if residue
\* numbers always rose by one.
MatchTupleContiguous(res_nums, i, qlen, mismatches) ==
    <<PyIndex(res_nums, i), PyIndex(res_nums, i) + qlen - 1, mismatches>>

\* (res_nums[i], res_nums[i + qlen - 1], mismatches)
MatchTuple(res_nums, i, qlen, mismatches) ==
    <<PyIndex(res_nums, i), PyIndex(res_nums, i + qlen - 1), mismatches>>

\* Faulty variant: matches.insert(0, ...).
PrependMatch(matches, m) == <<m>> \o matches

\* matches.append(...)
AppendMatch(matches, m) == Append(matches, m)

\* The loop of find_matches from index i on, with the matches found so far.
RECURSIVE find_matches_loop(_, _, _, _, _, _)
find_matches_loop(sequence, res_nums, query, max_mismatches, i, matches) ==
    LET qlen == Len(query)
        mismatches == hamming_distance(query, Window(sequence, query, i))
    IN  IF i >= WindowCount(sequence, query)
        THEN [raised |-> NoException, value |-> matches]
        ELSE IF WithinBudget(mismatches, max_mismatches)
             THEN IF MatchIndexOk(res_nums, i, qlen)
                  THEN find_matches_loop(sequence, res_nums, query, max_mismatches, i + 1,
                           AppendMatch(matches, MatchTuple(res_nums, i, qlen, mismatches)))
                  ELSE [raised |-> IndexError, value |-> <<>>]
             ELSE find_matches_loop(sequence, res_nums, query, max_mismatches, i + 1,
                                    matches)

find_matches(sequence, res_nums, query, max_mismatches) ==
    find_matches_loop(sequence, res_nums, query, max_mismatches, 0, <<>>)

\* ------------------------------------------------------- chain extraction
\* three_to_one: Bio.Data.IUPACData.protein_letters_3to1 with upper-cased keys.
three_to_one ==
    [n \in {"ALA", "CYS", "ASP", "GLU", "PHE", "GLY", "HIS", "ILE", "LYS", "LEU",
            "MET", "ASN", "PRO", "GLN", "ARG", "SER", "THR", "VAL", "TRP", "TYR"} |->
        CASE n = "ALA" -> "A" [] n = "CYS" -> "C" [] n = "ASP" -> "D" [] n = "GLU" -> "E"
          [] n = "PHE" -> "F" [] n = "GLY" -> "G" [] n = "HIS" -> "H" [] n = "ILE" -> "I"
          [] n = "LYS" -> "K" [] n = "LEU" -> "L" [] n = "MET" -> "M" [] n = "ASN" -> "N"
          [] n = "PRO" -> "P" [] n = "GLN" -> "Q" [] n = "ARG" -> "R" [] n = "SER" -> "S"
          [] n = "THR" -> "T" [] n = "VAL" -> "V" [] n = "TRP" -> "W" [] n = "TYR" -> "Y"]

\* Faulty variant: the residue name is looked up as the file spells it.
ResnameAsIs(name) == name

\* res.resname.upper(), on the residue names a structure is built from.
ResnameUpper(name) ==
    CASE name = "Gly" -> "GLY"
      [] OTHER -> name

\* Faulty variant: the residue number is recorded before the hetero test.
extract_step_number_first(acc, res) ==
    LET resname == ResnameUpper(res.resname)
    IN  [sequence |-> IF res.het # " " THEN acc.sequence
                      ELSE Append(acc.sequence,
                                  IF resname \in DOMAIN three_to_one
                                  THEN three_to_one[resname] ELSE "X"),
         res_nums |-> Append(acc.res_nums, res.resseq)]

\* One pass of the loop over a chain's residues: a hetero residue (res.id[0]
\* other than ' ') is skipped, any other appends its code and its number.
extract_step(acc, res) ==
    IF res.het # " "
    THEN acc
    ELSE LET resname == ResnameUpper(res.resname)
         IN  [sequence |-> Append(acc.sequence,
                                  IF resname \in DOMAIN three_to_one
                                  THEN three_to_one[resname] ELSE "X"),
              res_nums |-> Append(acc.res_nums, res.resseq)]

RECURSIVE extract_loop(_, _, _)
extract_loop(chain, k, acc) ==
    IF k > Len(chain) THEN acc
    ELSE extract_loop(chain, k + 1, extract_step(acc, chain[k]))

\* extract_chain_sequence(chain): the pair (sequence, res_nums). The copy in
\* generate_mutatex_position_list.py (lines 20-35) is the same code.
extract_chain_sequence(chain) ==
    extract_loop(chain, 1, [sequence |-> <<>>, res_nums |-> <<>>])

\* ------------------------------------------------------------ text helpers
\* str.upper() on the characters a query is typed from.
LowerCase ==
    <<"a", "b", "c", "d", "e", "f", "g", "h", "i", "j", "k", "l", "m", "n", "o",
      "p", "q", "r", "s", "t", "u", "v", "w", "x", "y", "z">>
UpperCase ==
    <<"A", "B", "C", "D", "E", "F", "G", "H", "I", "J", "K", "L", "M", "N", "O",
      "P", "Q", "R", "S", "T", "U", "V", "W", "X", "Y", "Z">>

CharUpper(c) ==
    IF \E k \in 1..26 : LowerCase[k] = c
    THEN UpperCase[CHOOSE k \in 1..26 : LowerCase[k] = c]
    ELSE c

upper(s) == [k \in 1..Len(s) |-> CharUpper(s[k])]

\* The 20 standard one-letter codes of gen_pdb_span.main.
StandardAA ==
    {"A", "C", "D", "E", "F", "G", "H", "I", "K", "L",
     "M", "N", "P", "Q", "R", "S", "T", "V", "W", "Y"}

\* Faulty variant: all(...) in place of any(...).
InvalidQueryAll(q) == \A k \in 1..Len(q) : q[k] \notin StandardAA

\* any(aa not in "ACDEFGHIKLMNPQRSTVWY" for aa in query)
InvalidQuery(q) == \E k \in 1..Len(q) : q[k] \notin StandardAA

\* str.strip(): leading and trailing blanks removed.
RECURSIVE lstrip(_)
lstrip(s) == IF s # <<>> /\ Head(s) = " " THEN lstrip(Tail(s)) ELSE s

RECURSIVE rstrip(_)
rstrip(s) ==
    IF s # <<>> /\ s[Len(s)] = " " THEN rstrip(SubSeq(s, 1, Len(s) - 1)) ELSE s

strip(s) == rstrip(lstrip(s))

\* str(n) for an integer: its decimal digits, with a leading '-' below zero.
DigitChar(d) ==
    CASE d = 0 -> "0" [] d = 1 -> "1" [] d = 2 -> "2" [] d = 3 -> "3" [] d = 4 -> "4"
      [] d = 5 -> "5" [] d = 6 -> "6" [] d = 7 -> "7" [] d = 8 -> "8" [] d = 9 -> "9"

RECURSIVE NatStr(_)
NatStr(n) == IF n < 10 THEN <<DigitChar(n)>> ELSE Append(NatStr(n \div 10), DigitChar(n % 10))

IntStr(n) == IF n < 0 THEN <<"-">> \o NatStr(-n) ELSE NatStr(n)

\* f"{chain_id}:{start}-{end}"
FormatSpan(chain_id, start, end) ==
    <<chain_id>> \o <<":">> \o IntStr(start) \o <<"-">> \o IntStr(end)

\* str.isdigit() and int() on a typed answer.
IsDigitChar(c) == c \in {"0", "1", "2", "3", "4", "5", "6", "7", "8", "9"}

isdigit(s) == s # <<>> /\ \A k \in 1..Len(s) : IsDigitChar(s[k])

DigitVal(c) == CHOOSE d \in 0..9 : DigitChar(d) = c

RECURSIVE StrNat(_)
StrNat(s) ==
    IF s = <<>> THEN 0
    ELSE 10 * StrNat(SubSeq(s, 1, Len(s) - 1)) + DigitVal(s[Len(s)])

\* str.split(sep): the pieces between the separators, empty pieces kept.
RECURSIVE split_from(_, _, _, _)
split_from(s, sep, k, piece) ==
    IF k > Len(s) THEN <<piece>>
    ELSE IF s[k] = sep
         THEN <<piece>> \o split_from(s, sep, k + 1, <<>>)
         ELSE split_from(s, sep, k + 1, Append(piece, s[k]))

split(s, sep) == split_from(s, sep, 1, <<>>)

\* [int(x.strip()) - 1 for x in selected.split(',') if x.strip().isdigit()]
RECURSIVE selection_indices(_)
selection_indices(pieces) ==
    IF pieces = <<>> THEN <<>>
    ELSE (IF isdigit(strip(Head(pieces)))
          THEN <<StrNat(strip(Head(pieces))) - 1>> ELSE <<>>)
         \o selection_indices(Tail(pieces))

\* [items[i] for i in indices if 0 <= i < len(items)]
RECURSIVE pick(_, _)
pick(items, indices) ==
    IF indices = <<>> THEN <<>>
    ELSE (IF 0 <= Head(indices) /\ Head(indices) < Len(items)
          THEN <<items[Head(indices) + 1]>> ELSE <<>>)
         \o pick(items, Tail(indices))

\* ------------------------------------------- MutateX: find_sequence_matches
\* The sliding-window loop of find_sequence_matches over one chain (lines
\* 55-63), from index i on: Match(chain_id, start, end, mismatches, window).
RECURSIVE fsm_scan(_, _, _, _, _, _, _)
fsm_scan(chain_id, sequence, res_nums, query, max_mismatches, i, found) ==
    LET window == PySlice(sequence, i, i + Len(query))
        mismatches == hamming_distance(query, window)
    IN  IF i >= Len(sequence) - Len(query) + 1
        THEN [raised |-> NoException, value |-> found]
        ELSE IF mismatches <= max_mismatches
             THEN IF PyIndexOk(res_nums, i) /\ PyIndexOk(res_nums, i + Len(query) - 1)
                  THEN fsm_scan(chain_id, sequence, res_nums, query, max_mismatches, i + 1,
                           Append(found,
                                  [chain_id |-> chain_id,
                                   start_resnum |-> PyIndex(res_nums, i),
                                   end_resnum |-> PyIndex(res_nums, i + Len(query) - 1),
                                   mismatches |-> mismatches,
                                   sequence |-> window]))
                  ELSE [raised |-> IndexError, value |-> <<>>]
             ELSE fsm_scan(chain_id, sequence, res_nums, query, max_mismatches, i + 1,
                           found)

\* if not sequence or len(sequence) < len(query): continue
fsm_skip_chain(sequence, query) == sequence = <<>> \/ Len(sequence) < Len(query)

\* gen_pdb_span: if not sequence or len(res_nums) < len(query): continue
gps_skip_chain(sequence, res_nums, query) ==
    sequence = <<>> \/ Len(res_nums) < Len(query)

\* ------------------------------------------- convert_rosetta_to_mutatex.py
ValueError == "ValueError"

\* [A-Za-z] and \s of the regular expressions.
Letters == {LowerCase[k] : k \in 1..26} \cup {UpperCase[k] : k \in 1..26}
Digits == {"0", "1", "2", "3", "4", "5", "6", "7", "8", "9"}

\* The non-empty pieces of s between runs of separator characters:
\* [t for t in re.split(r'[\s,]+', line) if t], and str.split() on blanks.
RECURSIVE fields_from(_, _, _, _)
fields_from(s, seps, k, piece) ==
    IF k > Len(s) THEN (IF piece = <<>> THEN <<>> ELSE <<piece>>)
    ELSE IF s[k] \in seps
         THEN (IF piece = <<>> THEN <<>> ELSE <<piece>>) \o fields_from(s, seps, k + 1, <<>>)
         ELSE fields_from(s, seps, k + 1, Append(piece, s[k]))

fields(s, seps) == fields_from(s, seps, 1, <<>>)

\* Line 95: tokens = [t for t in re.split(r'[\s,]+', line) if t]
tokens(line) == fields(line, {" ", ","})

\* s.replace(old, new) for single characters.
replace(s, old, new) == [k \in 1..Len(s) |-> IF s[k] = old THEN new ELSE s[k]]

\* int(text): blanks around it dropped, an optional sign, then digits only;
\* anything else raises ValueError.
int(text) ==
    LET t == strip(text)
        signed == t # <<>> /\ t[1] \in {"-", "+"}
        digits == IF signed THEN Tail(t) ELSE t
    IN  IF isdigit(digits)
        THEN [raised |-> NoException,
              value |-> IF signed /\ t[1] = "-" THEN 0 - StrNat(digits) ELSE StrNat(digits)]
        ELSE [raised |-> ValueError, value |-> 0]

\* _to_one_letter, lines 24-36: a one-letter code is returned in capitals, a
\* three-letter code is looked up, anything else is 'X'.
to_one_letter(residue_code) ==
    LET code == upper(residue_code)
    IN  IF Len(code) = 1 THEN code[1]
        ELSE IF Len(code) = 3
             THEN (IF code[1] \o code[2] \o code[3] \in DOMAIN three_to_one
                   THEN three_to_one[code[1] \o code[2] \o code[3]] ELSE "X")
             ELSE "X"

\* The length of the run of characters of the set chars, from index k on.
RECURSIVE run_length(_, _, _)
run_length(s, k, chars) ==
    IF k <= Len(s) /\ s[k] \in chars THEN 1 + run_length(s, k + 1, chars) ELSE 0

\* Line 66: re.match(r"^([A-Za-z])\-([A-Za-z]{1,3})(\d+)([A-Za-z]{1,3})?$", s);
\* the groups chain, wt_res and resnum_str of a match, else None.
hyphen_match(s) ==
    IF Len(s) >= 4 /\ s[1] \in Letters /\ s[2] = "-"
    THEN LET a == run_length(s, 3, Letters)
             d == run_length(s, 3 + a, Digits)
             m == Len(s) - (2 + a + d)
         IN  IF /\ a \in 1..3
                /\ d >= 1
                /\ m \in 0..3
                /\ run_length(s, 3 + a + d, Letters) = m
             THEN [matched |-> TRUE, chain |-> s[1], wt_res |-> SubSeq(s, 3, 2 + a),
                   resnum_str |-> SubSeq(s, 3 + a, 2 + a + d)]
             ELSE [matched |-> FALSE]
    ELSE [matched |-> FALSE]

\* parse_rosetta_position, lines 49-72: (chain, residue, resnum) or ValueError.
parse_rosetta_position(position_str) ==
    LET s == strip(position_str)
        parts == fields(replace(s, ".", " "), {" "})
        m == hyphen_match(s)
    IN  IF Len(parts) \in {3, 4}
        THEN (IF int(parts[3]).raised # NoException
              THEN [raised |-> ValueError]
              ELSE [raised |-> NoException, chain |-> parts[1][1],
                    residue |-> to_one_letter(parts[2]), resnum |-> int(parts[3]).value])
        ELSE IF m.matched
             THEN [raised |-> NoException, chain |-> m.chain,
                   residue |-> to_one_letter(m.wt_res), resnum |-> StrNat(m.resnum_str)]
             ELSE [raised |-> ValueError]

\* Line 102: mutatex_format = f"{residue}{chain}{resnum}"
mutatex_format(parsed) == <<parsed.residue, parsed.chain>> \o IntStr(parsed.resnum)

\* Faulty variant: the last token of the line that parses is the one taken.
RECURSIVE last_parsed(_, _)
last_parsed(toks, k) ==
    IF k < 1 THEN None
    ELSE IF parse_rosetta_position(toks[k]).raised = NoException
         THEN mutatex_format(parse_rosetta_position(toks[k]))
         ELSE last_parsed(toks, k - 1)

first_parsed_backwards(toks, k) == last_parsed(toks, Len(toks))

\* Lines 99-112: the tokens are tried from the left; the first that parses
\* gives the line's position and ends the loop. None when no token parses.
RECURSIVE first_parsed(_, _)
first_parsed(toks, k) ==
    IF k > Len(toks) THEN None
    ELSE IF parse_rosetta_position(toks[k]).raised = NoException
         THEN mutatex_format(parse_rosetta_position(toks[k]))
         ELSE first_parsed(toks, k + 1)

\* Lines 88-92: blank lines and comments are passed over.
skipped_line(line) == strip(line) = <<>> \/ Head(strip(line)) = "#"

\* ------------------------------------------------ find_missing_replicas.py
\* A file is there with its lines, or it is not there.
File(lines) == [exists |-> TRUE, lines |-> lines]
NoFile == [exists |-> FALSE]

\* Characters by rising code point, as Python compares strings.
CodePointOrder ==
    <<" ", "#", ",", "-", ".", "0", "1", "2", "3", "4", "5", "6", "7", "8", "9",
      ":", "A", "B", "C", "D", "E", "F", "G", "H", "I", "J", "K", "L", "M", "N",
      "O", "P", "Q", "R", "S", "T", "U", "V", "W", "X", "Y", "Z", "a", "b", "c",
      "d", "e", "f", "g", "h", "i", "j", "k", "l", "m", "n", "o", "p", "q", "r",
      "s", "t", "u", "v", "w", "x", "y", "z">>

ord(c) == CHOOSE k \in 1..Len(CodePointOrder) : CodePointOrder[k] = c

\* a < b for two strings.
RECURSIVE str_less(_, _)
str_less(a, b) ==
    IF b = <<>> THEN FALSE
    ELSE IF a = <<>> THEN TRUE
    ELSE IF Head(a) = Head(b) THEN str_less(Tail(a), Tail(b))
    ELSE ord(Head(a)) < ord(Head(b))

\* sorted(...) of a set of strings, as a list.
RECURSIVE sorted_strings(_)
sorted_strings(S) ==
    IF S = {} THEN <<>>
    ELSE LET least == CHOOSE x \in S : \A y \in S \ {x} : str_less(x, y)
         IN  <<least>> \o sorted_strings(S \ {least})

\* Path.with_suffix: the last dot-separated part of the name gives way to
\* the new suffix; a name without a suffix gets it appended.
with_suffix(path, suffix) ==
    IF Len(path) > 1 THEN SubSeq(path, 1, Len(path) - 1) \o suffix
    ELSE path \o suffix

\* Path.rename on POSIX: the target is replaced; a file renamed to its own
\* name stays as it is.
rename(fs, src, dst) ==
    IF src = dst THEN fs
    ELSE [fs EXCEPT ![dst] = fs[src], ![src] = NoFile]

\* Line 86: [line.rstrip("\n") for line in fh if line.strip()]
non_blank(lines) == SelectSeq(lines, LAMBDA line : strip(line) # <<>>)

\* Faulty variant: only the first replica is looked at.
missing_reps_first_only(t, mut_id, nstruct) ==
    IF mut_id \notin t.dirs THEN [k \in 1..nstruct |-> k]
    ELSE IF nstruct >= 1 /\ <<mut_id, 1>> \notin t.dbs THEN <<1>> ELSE <<>>

\* Lines 105-112: the replicas of mut_id without <flex>/<mut_id>/<rep>/ddg.db3,
\* all of them when <flex>/<mut_id> is no directory.
missing_reps(t, mut_id, nstruct) ==
    IF mut_id \notin t.dirs THEN [k \in 1..nstruct |-> k]
    ELSE SelectSeq([k \in 1..nstruct |-> k], LAMBDA rep : <<mut_id, rep>> \notin t.dbs)

\* Lines 122-124: the lines of the redo list.
RECURSIVE redo_lines(_, _, _)
redo_lines(miss, ids, k) ==
    IF k > Len(ids) THEN <<>>
    ELSE LET reps == SortSeq(miss[ids[k]], <)
         IN  [r \in 1..Len(reps) |-> ids[k] \o <<":">> \o IntStr(reps[r])]
             \o redo_lines(miss, ids, k + 1)

\* ------------------------------------------------------ patch_plotting.py
\* An argument left at its default None, and one given as a list.
PyNone == [is_none |-> TRUE]
PyList(items) == [is_none |-> FALSE, items |-> items]

\* The two functions plotting.set_axis is bound to in turn.
OriginalSetAxis == "_original_set_axis"
PatchedSetAxis == "patched_set_axis"

\* The exception plt.figure raised, and the one plot_total_heatmap raised.
FigureError == "figure error"
PlotError == "plot error"

\* list(range(len(ticklabels)))
range_len(ticklabels) == [k \in 1..Len(ticklabels) |-> k - 1]

\* patched_set_axis, lines 20-33: the ticks handed on to _original_set_axis.
patched_ticks(axis, ticks, ticklabels) ==
    IF ~ticklabels.is_none /\ ticks.is_none
    THEN IF axis = "x"
         THEN PyList(range_len(ticklabels.items))
         ELSE IF axis = "y" /\ ticklabels.items # <<>>
              THEN PyList(range_len(ticklabels.items))
              ELSE ticks
    ELSE ticks

\* A call of plotting.set_axis(ax, axis, config, ticks, ticklabels) goes to
\* the function bound at the time; what reaches the original set_axis.
set_axis_call(bound, axis, ticks, ticklabels) ==
    [called |-> TRUE, through |-> bound, axis |-> axis, ticks |-> ticks,
     ticklabels |-> ticklabels,
     passed |-> IF bound = PatchedSetAxis
                THEN patched_ticks(axis, ticks, ticklabels) ELSE ticks]

\* Faulty variant: the finally clause leaves the binding as it is.
finally_keeps(bound) == bound

\* Line 52, in the finally clause: plotting.set_axis = _original_set_axis.
finally_restores(bound) == OriginalSetAxis

\* ------------------------------------------------------------------- state
VARIABLES
    prog,            \* the entry point this run executes
    pc,              \* its position
    structure,       \* model 0 of the parsed PDB file: its chains, in file order
    args,            \* the parsed command line
    sequence,        \* the matcher's sequence (the chain being scanned)
    res_nums,        \* its residue numbers
    query,           \* the query motif
    max_mismatches,  \* the mismatch budget
    matches,         \* the list find_matches returned last
    exc,             \* the exception that ended the call or the run, or NoException
    prev,            \* find_matches called directly: the call before the last one
    chain_i,         \* for chain in model: the chain's place in the structure
    results,         \* the Match records collected over the chains
    q_i,             \* for q in args.query: the query's place
    caller,          \* who called find_sequence_matches: main or interactive_mode
    spans,           \* interactive_mode: the span texts of the matches shown
    all_spans,       \* main: the span texts collected so far
    exit_code,       \* the exit status, None while running
    files,           \* the files the run reads and writes, by path
    tree,            \* the flexddg directory: mutation directories and ddg.db3 files
    line_num,        \* for line_num, line in enumerate(f, 1): the line's place
    positions,       \* convert_mutinfo_to_mutatex: the positions collected
    seen_positions,  \* convert_mutinfo_to_mutatex: the positions met so far
    all_lines,       \* find_missing_replicas: the non-blank lines of mutinfo
    missing,         \* find_missing_replicas: mut_id -> missing replica numbers
    lines_to_keep,   \* find_missing_replicas: the lines of complete mutations
    original,        \* history: the mutinfo file as it was when the run began
    unique_spans,    \* main: the span texts without repeats
    parsed_spans,    \* main: the (chain, start, end) triples parsed from them
    warnings,        \* main: what validate_spans_in_structure returned
    pos_entries,     \* generate_position_list: the entries it returned
    set_axis,        \* patch_plotting: what plotting.set_axis is bound to
    axis_call        \* patch_plotting: the last call of patched_set_axis

\* The variables of main's last part and of patch_plotting.py.
lateVars == <<unique_spans, parsed_spans, warnings, pos_entries, set_axis, axis_call>>

\* The variables of the two file tools.
ioVars == <<files, tree, line_num, positions, seen_positions, all_lines, missing,
            lines_to_keep, original, lateVars>>

vars == <<prog, pc, structure, args, sequence, res_nums, query, max_mismatches,
          matches, exc, prev, chain_i, results, q_i, caller, spans, all_spans,
          exit_code, ioVars>>

NoCall == [called |-> FALSE]

\* ------------------------------------------------------------------ inputs
\* Residues a chain is built from: two standard ones (one spelt in mixed
\* case), a non-standard one in an ATOM record, and a water.
ResKinds ==
    {[het |-> " ", resname |-> "ALA"], [het |-> " ", resname |-> "Gly"],
     [het |-> " ", resname |-> "UNK"], [het |-> "W", resname |-> "HOH"]}

\* Residue numberings <<first, step>>: rising, rising through zero, falling,
\* and repeated numbers (as with insertion codes).
Numberings == {<<31, 1>>, <<-2, 1>>, <<5, -1>>, <<7, 0>>}

MakeChain(id, kinds, num) ==
    [id |-> id,
     residues |-> [k \in 1..Len(kinds) |->
                      [het |-> kinds[k].het, resname |-> kinds[k].resname,
                       resseq |-> num[1] + num[2] * (k - 1)]]]

KindSeqs == UNION {[1..n -> ResKinds] : n \in 1..MaxResidues}

\* One chain H, or chains H and L, of at most MaxResidues residues in all.
Structures ==
    {<<MakeChain("H", ks, num)>> : ks \in KindSeqs, num \in Numberings}
    \cup {<<MakeChain("H", kp[1], num), MakeChain("L", kp[2], num)>> :
             kp \in {x \in KindSeqs \X KindSeqs : Len(x[1]) + Len(x[2]) <= MaxResidues},
             num \in Numberings}

\* Query texts given on the command line.
CliQueries ==
    {<<>>, <<"A">>, <<"a">>, <<"X">>, <<"A", "A">>, <<"A", "G">>, <<"g", "A">>,
     <<"A", "X">>}
\* -q lists of the MutateX script; <<>> stands for no -q at all.
QueryLists ==
    {<<>>} \cup {<<q>> : q \in CliQueries}
    \cup {<<q1, q2>> : q1, q2 \in {<<"A">>, <<"A", "X">>}}
\* --fuzzy values.
CliFuzzy == {0, 1}
\* What is typed at the prompts of interactive_mode.
TypedQueries == CliQueries \cup {<<" ">>, <<" ", "g">>}
TypedFuzzy == {<<"0">>, <<"1">>, <<"-", "1">>, <<>>}
TypedSelections ==
    {<<>>, <<"1">>, <<"2">>, <<"0">>, <<"x">>, <<"1", ",", "1">>,
     <<"2", ",", " ", "1">>}
TypedSpans ==
    {<<>>, <<"H", ":", "3", "1", "-", "3", "2">>,
     <<" ", "H", ":", "5", "-", "4", ",", " ", "L", "7">>}

\* ---- the file tools
\* A path is the list of the dot-separated parts of its name.
MutinfoPath == <<"mutinfo", "txt">>
PositionListPath == <<"position_list", "txt">>
BackupPath == <<"mutinfo", "bak">>
CleanedPath == <<"mutinfo", "cleaned", "txt">>
RedoPath == <<"missing_replicas", "txt">>
Paths == {MutinfoPath, PositionListPath, BackupPath, CleanedPath, RedoPath}

\* No file exists.
NoFiles == [p \in Paths |-> NoFile]

\* Nothing collected, parsed or written yet; patch_plotting.py not imported.
LateIdle ==
    /\ unique_spans = <<>>
    /\ parsed_spans = <<>>
    /\ warnings = <<>>
    /\ pos_entries = <<>>
    /\ set_axis = None
    /\ axis_call = NoCall

\* The variables of the file tools in a run of another program.
IoIdle ==
    /\ LateIdle
    /\ files = NoFiles
    /\ tree = {}
    /\ line_num = 0
    /\ positions = <<>>
    /\ seen_positions = {}
    /\ all_lines = <<>>
    /\ missing = <<>>
    /\ lines_to_keep = <<>>
    /\ original = NoFile

\* The variables a run of one program does not use.
Idle ==
    /\ sequence = <<>>
    /\ res_nums = <<>>
    /\ query = <<>>
    /\ max_mismatches = 0
    /\ matches = <<>>
    /\ exc = NoException
    /\ prev = NoCall
    /\ chain_i = 0
    /\ results = <<>>
    /\ q_i = 0
    /\ caller = None
    /\ spans = <<>>
    /\ all_spans = <<>>
    /\ exit_code = None

\* A direct call of find_matches: any lists, also ones the contract excludes
\* (an empty query, res_nums one shorter or longer than sequence).
InitFindMatches ==
    /\ prog = "find_matches"
    /\ pc = "start"
    /\ structure = <<>>
    /\ args = <<>>
    /\ sequence \in SeqsUpTo(SeqAlphabet, MaxSeqLen)
    /\ \E num \in Numberings :
         \E n \in {Len(sequence) - 1, Len(sequence), Len(sequence) + 1} \cap 0..MaxSeqLen :
            res_nums = [k \in 1..n |-> num[1] + num[2] * (k - 1)]
    /\ query \in SeqsUpTo(QueryAlphabet, MaxQLen)
    /\ max_mismatches \in Budgets
    /\ matches = <<>>
    /\ exc = NoException
    /\ prev = NoCall
    /\ chain_i = 0
    /\ results = <<>>
    /\ q_i = 0
    /\ caller = None
    /\ spans = <<>>
    /\ all_spans = <<>>
    /\ exit_code = None
    /\ IoIdle

\* The documented example: GFTFSRAS numbered 31..38, searched for a handful of
\* motifs with no or one mismatch allowed.
ExampleSequence == <<"G", "F", "T", "F", "S", "R", "A", "S">>
ExampleResNums == [k \in 1..8 |-> 30 + k]
ExampleQueries ==
    {<<"G", "F", "T", "F">>, <<"G", "F", "T", "X">>, <<"F", "T", "F", "S">>,
     <<"R", "A", "S">>, <<"G", "A", "T", "F">>}

InitExample ==
    /\ prog = "find_matches"
    /\ pc = "start"
    /\ structure = <<>>
    /\ args = <<>>
    /\ sequence = ExampleSequence
    /\ res_nums = ExampleResNums
    /\ query \in ExampleQueries
    /\ max_mismatches \in {0, 1}
    /\ matches = <<>>
    /\ exc = NoException
    /\ prev = NoCall
    /\ chain_i = 0
    /\ results = <<>>
    /\ q_i = 0
    /\ caller = None
    /\ spans = <<>>
    /\ all_spans = <<>>
    /\ exit_code = None
    /\ IoIdle

\* Lines of a mutinfo file handed to convert_rosetta_to_mutatex.py: the four
\* documented formats, the documented line of several tokens, tokens without
\* a chain, a comment, a blank line, three-letter codes, a number with a
\* leading zero, a number that is none, a negative number.
MutinfoLines ==
    {<<"H", ".", "S", ".", "2", "1", "4">>,
     <<"H", ".", "S", ".", "2", "1", "4", ".", "A">>,
     <<"H", "-", "S", "2", "1", "4", "A">>,
     <<"H", " ", "S", " ", "2", "1", "4">>,
     <<"E", ".", "S", ".", "6", "5", "7", ".", "A", ",", "E", "-", "S", "6", "5", "7", "A", ",", "S", "6", "5", "7", "A", ",", "S", "6", "5", "7">>,
     <<"S", "6", "5", "7", "A", ",", "S", "6", "5", "7">>,
     <<"S", "6", "5", "7", "A", ",", " ", "H", "-", "S", "2", "1", "4", "A">>,
     <<"#", " ", "H", ".", "S", ".", "2", "1", "4">>,
     <<>>,
     <<" ", "h", "-", "S", "e", "r", "2", "1", "4", "a", " ">>,
     <<"L", ".", "A", ".", "5", "1", " ", "H", ".", "S", ".", "2", "1", "4">>,
     <<"H", ".", "S", ".", "0", "2", "1", "4">>,
     <<"H", ".", "S", ".", "x">>,
     <<"H", ".", "g", "l", "y", ".", "-", "5">>}

\* Files of at most MaxLines lines.
MutinfoFiles == UNION {[1..n -> MutinfoLines] : n \in 0..MaxLines}

\* convert_rosetta_to_mutatex.py -i mutinfo.txt -o position_list.txt
\* [--keep-duplicates]; the output file may be there from an earlier run.
InitConvert ==
    /\ prog = "convert"
    /\ pc = "main"
    /\ structure = <<>>
    /\ args \in [keep_duplicates : BOOLEAN]
    /\ Idle
    /\ \E content \in MutinfoFiles, old \in {NoFile, File(<< <<"A", "H", "1">> >>)} :
          files = [NoFiles EXCEPT ![MutinfoPath] = File(content),
                                  ![PositionListPath] = old]
    /\ tree = {}
    /\ line_num = 0
    /\ positions = <<>>
    /\ seen_positions = {}
    /\ all_lines = <<>>
    /\ missing = <<>>
    /\ lines_to_keep = <<>>
    /\ original = NoFile
    /\ LateIdle

\* Directory names of mutations under flexddg.
MutIds == {<<"m", "2">>, <<"m", "1", "0">>}

\* Lines of the mutinfo file of a Flex ddG run: two lines of one mutation,
\* a line of another, a line without a comma, a blank line.
MutinfoRows ==
    {<<"a", ",", "m", "2">>,
     <<"b", ",", "m", "2">>,
     <<"a", ",", "m", "1", "0", ",", "x">>,
     <<"m", "3">>,
     <<" ">>}

FmFiles == UNION {[1..n -> MutinfoRows] : n \in 0..MaxLines}

\* --nstruct values.
NstructValues == {1, 2}

\* The flexddg directory: which mutation directories are there, and which of
\* their replicas have a ddg.db3.
Trees(nstruct) ==
    UNION {{[flex |-> TRUE, dirs |-> D, dbs |-> B] : B \in SUBSET (D \X (1..nstruct))} :
              D \in SUBSET MutIds}

\* No flexddg directory at all.
NoFlex == [flex |-> FALSE, dirs |-> {}, dbs |-> {}]

\* A redo list left by an earlier run.
StaleRedo == << <<"m", "2", ":", "1">> >>

\* find_missing_replicas.py [--nstruct n] [--mutinfo name] [--inplace], run
\* where flexddg is; the mutinfo file may be missing, and an earlier run may
\* have left a redo list.
InitFindMissing ==
    /\ prog = "find_missing_replicas"
    /\ pc = "main"
    /\ structure = <<>>
    /\ args \in [nstruct : NstructValues, mutinfo : {MutinfoPath, BackupPath},
                 inplace : BOOLEAN]
    /\ Idle
    /\ original \in {File(content) : content \in FmFiles} \cup {NoFile}
    /\ \E stale \in {NoFile, File(StaleRedo)} :
          files = [NoFiles EXCEPT ![args.mutinfo] = original, ![RedoPath] = stale]
    /\ tree \in Trees(args.nstruct) \cup {NoFlex}
    /\ line_num = 0
    /\ positions = <<>>
    /\ seen_positions = {}
    /\ all_lines = <<>>
    /\ missing = <<>>
    /\ lines_to_keep = <<>>
    /\ LateIdle

\* gen_pdb_span.py -p <pdb> -s <sequence> --fuzzy <n>
InitGenPdbSpan ==
    /\ prog = "gen_pdb_span"
    /\ pc = "main"
    /\ structure \in Structures
    /\ args \in [sequence : CliQueries, fuzzy : CliFuzzy]
    /\ Idle
    /\ IoIdle

\* -s span lists: one repeats a span, one has overlapping spans and a chain
\* no structure has, one misses the ':' of the format.
SpansRepeated ==
    <<<<"H", ":", "3", "1", "-", "3", "2">>, <<"L", ":", "3", "0", "-", "3", "1">>,
      <<"H", ":", "3", "1", "-", "3", "2">>>>
SpansOverlapping ==
    <<<<"H", ":", "4", "-", "7">>, <<"Q", ":", "1", "-", "2">>,
      <<"H", ":", "7", "-", "7">>>>
SpansMalformed ==
    <<<<"H", ":", "3", "1", "-", "3", "1">>, <<"L", "7">>>>
\* <<>> stands for no -s at all.
CliSpans == {<<>>, SpansRepeated, SpansOverlapping, SpansMalformed}

\* --validate, --include-non-standard and --append-output.
NoOptions ==
    [validate |-> FALSE, include_non_standard |-> FALSE, append_output |-> FALSE]
CliOptions ==
    {[validate |-> TRUE, include_non_standard |-> FALSE, append_output |-> FALSE],
     [validate |-> TRUE, include_non_standard |-> TRUE, append_output |-> TRUE]}

\* What the output file holds before the run.
OldPositions == File(<< <<"A", "H", "1">> >>)

Arguments(queries, fuzzy, interactive, span_lists, options) ==
    {[query |-> q, fuzzy |-> f, interactive |-> i, spans |-> s,
      validate |-> o.validate, include_non_standard |-> o.include_non_standard,
      append_output |-> o.append_output] :
        q \in queries, f \in fuzzy, i \in interactive, s \in span_lists, o \in options}

\* generate_mutatex_position_list.py -p <pdb> [-s <span>...] [-q <motif>]...
\* [--fuzzy <n>] [-i] [--validate] [--include-non-standard] [--append-output]
InitMutatex ==
    /\ prog = "mutatex"
    /\ pc = "main"
    /\ structure \in Structures
    /\ \/ /\ args \in Arguments(QueryLists, CliFuzzy, {FALSE}, {<<>>}, {NoOptions})
                       \cup Arguments({<<>>}, {0}, {TRUE}, {<<>>}, {NoOptions})
          /\ files = NoFiles
       \/ /\ args \in Arguments({<<>>, <<<<"A">>>>}, {0}, {FALSE}, CliSpans \ {<<>>},
                                 CliOptions)
                       \cup Arguments({<<<<"A">>>>}, {0}, {TRUE},
                                      {SpansRepeated},
                                      {NoOptions})
          /\ files = [NoFiles EXCEPT ![PositionListPath] = OldPositions]
    /\ Idle
    /\ tree = {}
    /\ line_num = 0
    /\ positions = <<>>
    /\ seen_positions = {}
    /\ all_lines = <<>>
    /\ missing = <<>>
    /\ lines_to_keep = <<>>
    /\ original = NoFile
    /\ LateIdle

\* The axes, tick lists and label lists set_axis is called with.
Axes == {"x", "y"}
TickArguments == {PyNone} \cup {PyList([k \in 1..n |-> k - 1]) : n \in 0..MaxTicks}
LabelArguments == {PyNone} \cup {PyList([k \in 1..n |-> "label"]) : n \in 0..MaxTicks}
\* out_config: without 'figsize', with one plt.figure accepts, with one it
\* raises on.
Figsizes == {"absent", "valid", "invalid"}

\* python patch_plotting.py: RosettaDDGPrediction.plotting is loaded, the
\* patches are not yet applied.
InitPatchPlotting ==
    /\ prog = "patch_plotting"
    /\ pc = "import"
    /\ structure = <<>>
    /\ args = <<>>
    /\ Idle
    /\ files = NoFiles
    /\ tree = {}
    /\ line_num = 0
    /\ positions = <<>>
    /\ seen_positions = {}
    /\ all_lines = <<>>
    /\ missing = <<>>
    /\ lines_to_keep = <<>>
    /\ original = NoFile
    /\ unique_spans = <<>>
    /\ parsed_spans = <<>>
    /\ warnings = <<>>
    /\ pos_entries = <<>>
    /\ set_axis = OriginalSetAxis
    /\ axis_call = NoCall

Init ==
    InitFindMatches \/ InitExample \/ InitGenPdbSpan \/ InitMutatex \/ InitConvert
    \/ InitFindMissing \/ InitPatchPlotting

\* ------------------------------------------- find_matches, called directly
\* find_matches(sequence, res_nums, query, max_mismatches) runs to its end.
CallFindMatches ==
    /\ prog = "find_matches"
    /\ pc = "start"
    /\ LET r == find_matches(sequence, res_nums, query, max_mismatches)
       IN  /\ matches' = r.value
           /\ exc' = r.raised
    /\ pc' = "returned"
    /\ UNCHANGED <<ioVars, prog, structure, args, sequence, res_nums, query, max_mismatches,
                   prev, chain_i, results, q_i, caller, spans, all_spans, exit_code>>

\* The same lists and query once more, with a budget m at least as large.
CallAgain(m) ==
    /\ prog = "find_matches"
    /\ pc = "returned"
    /\ prev = NoCall
    /\ m >= max_mismatches
    /\ prev' = [called |-> TRUE, max_mismatches |-> max_mismatches,
                count |-> Len(matches), exc |-> exc]
    /\ max_mismatches' = m
    /\ LET r == find_matches(sequence, res_nums, query, m)
       IN  /\ matches' = r.value
           /\ exc' = r.raised
    /\ UNCHANGED <<ioVars, prog, pc, structure, args, sequence, res_nums, query,
                   chain_i, results, q_i, caller, spans, all_spans, exit_code>>

\* ------------------------------------------------------ gen_pdb_span.main
\* Lines 71-76: the query is upper-cased and checked; a character outside the
\* 20 codes ends the run with exit(1), else find_spans_in_pdb is called.
GpsMain ==
    /\ prog = "gen_pdb_span"
    /\ pc = "main"
    /\ query' = upper(args.sequence)
    /\ IF InvalidQuery(upper(args.sequence))
       THEN /\ pc' = "exit"
            /\ exit_code' = 1
            /\ UNCHANGED max_mismatches
       ELSE /\ pc' = "find_spans_in_pdb"
            /\ max_mismatches' = args.fuzzy
            /\ UNCHANGED exit_code
    /\ UNCHANGED <<ioVars, prog, structure, args, sequence, res_nums, matches, exc, prev,
                   chain_i, results, q_i, caller, spans, all_spans>>

\* find_spans_in_pdb, lines 44-49: query.upper(), results = [].
GpsFindSpans ==
    /\ prog = "gen_pdb_span"
    /\ pc = "find_spans_in_pdb"
    /\ query' = upper(query)
    /\ results' = <<>>
    /\ chain_i' = 1
    /\ pc' = "chain"
    /\ UNCHANGED <<ioVars, prog, structure, args, sequence, res_nums, max_mismatches, matches,
                   exc, prev, q_i, caller, spans, all_spans, exit_code>>

\* Line 53: sequence, res_nums = extract_chain_sequence(chain).
GpsExtract ==
    /\ prog = "gen_pdb_span"
    /\ pc = "chain"
    /\ chain_i <= Len(structure)
    /\ LET e == extract_chain_sequence(structure[chain_i].residues)
       IN  /\ sequence' = e.sequence
           /\ res_nums' = e.res_nums
    /\ pc' = "chain_match"
    /\ UNCHANGED <<ioVars, prog, structure, args, query, max_mismatches, matches, exc, prev,
                   chain_i, results, q_i, caller, spans, all_spans, exit_code>>

\* Match(chain_id, start, end, mismatches) for each tuple of find_matches.
GpsMatchRecords(chain_id, found) ==
    [k \in 1..Len(found) |->
        [chain_id |-> chain_id, start_resnum |-> found[k][1],
         end_resnum |-> found[k][2], mismatches |-> found[k][3]]]

\* Lines 55-60: a chain without residues or shorter than the query is passed
\* over; else its matches join the results. An exception in find_matches is
\* not caught anywhere: it ends the run.
GpsMatch ==
    /\ prog = "gen_pdb_span"
    /\ pc = "chain_match"
    /\ IF gps_skip_chain(sequence, res_nums, query)
       THEN /\ chain_i' = chain_i + 1
            /\ pc' = "chain"
            /\ UNCHANGED <<matches, results, exc>>
       ELSE LET r == find_matches(sequence, res_nums, query, max_mismatches)
            IN  IF r.raised # NoException
                THEN /\ exc' = r.raised
                     /\ pc' = "crashed"
                     /\ UNCHANGED <<matches, results, chain_i>>
                ELSE /\ matches' = r.value
                     /\ results' = results \o
                            GpsMatchRecords(structure[chain_i].id, r.value)
                     /\ chain_i' = chain_i + 1
                     /\ pc' = "chain"
                     /\ UNCHANGED exc
    /\ UNCHANGED <<ioVars, prog, structure, args, sequence, res_nums, query, max_mismatches,
                   prev, q_i, caller, spans, all_spans, exit_code>>

\* Lines 62 and 77-84: the results go back to main, which leaves with exit(2)
\* when there are none and prints them otherwise.
GpsReport ==
    /\ prog = "gen_pdb_span"
    /\ pc = "chain"
    /\ chain_i > Len(structure)
    /\ exit_code' = IF results = <<>> THEN 2 ELSE 0
    /\ pc' = "exit"
    /\ UNCHANGED <<ioVars, prog, structure, args, sequence, res_nums, query, max_mismatches,
                   matches, exc, prev, chain_i, results, q_i, caller, spans, all_spans>>

\* ------------------------------- generate_mutatex_position_list.py: main
\* The locals of a call that has returned.
ResetLocals ==
    /\ sequence' = <<>>
    /\ res_nums' = <<>>
    /\ query' = <<>>
    /\ max_mismatches' = 0
    /\ chain_i' = 0
    /\ results' = <<>>
    /\ caller' = None
    /\ spans' = <<>>

\* Lines 280-287: all_spans = []; with -i, interactive_mode runs first.
MxMain ==
    /\ prog = "mutatex"
    /\ pc = "main"
    /\ all_spans' = <<>>
    /\ IF args.interactive
       THEN pc' = "interactive" /\ UNCHANGED q_i
       ELSE pc' = "queries" /\ q_i' = 1
    /\ UNCHANGED <<ioVars, prog, structure, args, sequence, res_nums, query, max_mismatches,
                   matches, exc, prev, chain_i, results, caller, spans, exit_code>>

\* Lines 290-293: the next -q motif goes to find_sequence_matches as typed.
MxQueryNext ==
    /\ prog = "mutatex"
    /\ pc = "queries"
    /\ q_i <= Len(args.query)
    /\ query' = args.query[q_i]
    /\ max_mismatches' = args.fuzzy
    /\ caller' = "main"
    /\ pc' = "fsm"
    /\ UNCHANGED <<ioVars, prog, structure, args, sequence, res_nums, matches, exc, prev,
                   chain_i, results, q_i, spans, all_spans, exit_code>>

\* [f"{match.chain_id}:{match.start_resnum}-{match.end_resnum}" for match in ms]
MatchSpans(ms) ==
    [k \in 1..Len(ms) |-> FormatSpan(ms[k].chain_id, ms[k].start_resnum, ms[k].end_resnum)]

\* Lines 295-303: every match of the motif adds its span text to all_spans.
MxQueryMatches ==
    /\ prog = "mutatex"
    /\ pc = "q_matches"
    /\ all_spans' = all_spans \o MatchSpans(results)
    /\ q_i' = q_i + 1
    /\ pc' = "queries"
    /\ UNCHANGED <<ioVars, prog, structure, args, sequence, res_nums, query, max_mismatches,
                   matches, exc, prev, chain_i, results, caller, spans, exit_code>>

\* Lines 305-312: the -s spans are added last; no span at all ends the run
\* with exit(1); else the spans go on to be de-duplicated.
MxCollected ==
    /\ prog = "mutatex"
    /\ pc = "queries"
    /\ q_i > Len(args.query)
    /\ all_spans' = all_spans \o args.spans
    /\ IF all_spans' = <<>>
       THEN pc' = "exit" /\ exit_code' = 1
       ELSE pc' = "unique_spans" /\ UNCHANGED exit_code
    /\ UNCHANGED <<ioVars, prog, structure, args, sequence, res_nums, query, max_mismatches,
                   matches, exc, prev, chain_i, results, q_i, caller, spans>>

\* --------------------------------------------------- find_sequence_matches
\* Lines 43-45: query.upper(), matches = [].
FsmEnter ==
    /\ prog = "mutatex"
    /\ pc = "fsm"
    /\ query' = upper(query)
    /\ results' = <<>>
    /\ chain_i' = 1
    /\ pc' = "fsm_chain"
    /\ UNCHANGED <<ioVars, prog, structure, args, sequence, res_nums, max_mismatches, matches,
                   exc, prev, q_i, caller, spans, all_spans, exit_code>>

\* Line 49: sequence, res_nums = extract_chain_sequence(chain).
FsmExtract ==
    /\ prog = "mutatex"
    /\ pc = "fsm_chain"
    /\ chain_i <= Len(structure)
    /\ LET e == extract_chain_sequence(structure[chain_i].residues)
       IN  /\ sequence' = e.sequence
           /\ res_nums' = e.res_nums
    /\ pc' = "fsm_scan"
    /\ UNCHANGED <<ioVars, prog, structure, args, query, max_mismatches, matches, exc, prev,
                   chain_i, results, q_i, caller, spans, all_spans, exit_code>>

\* Lines 51-63: a chain without residues or shorter than the query is passed
\* over; else its windows are scanned. An IndexError is caught nowhere.
FsmScan ==
    /\ prog = "mutatex"
    /\ pc = "fsm_scan"
    /\ IF fsm_skip_chain(sequence, query)
       THEN /\ chain_i' = chain_i + 1
            /\ pc' = "fsm_chain"
            /\ UNCHANGED <<results, exc>>
       ELSE LET r == fsm_scan(structure[chain_i].id, sequence, res_nums, query,
                              max_mismatches, 0, results)
            IN  IF r.raised # NoException
                THEN /\ exc' = r.raised
                     /\ pc' = "crashed"
                     /\ UNCHANGED <<results, chain_i>>
                ELSE /\ results' = r.value
                     /\ chain_i' = chain_i + 1
                     /\ pc' = "fsm_chain"
                     /\ UNCHANGED exc
    /\ UNCHANGED <<ioVars, prog, structure, args, sequence, res_nums, query, max_mismatches,
                   matches, prev, q_i, caller, spans, all_spans, exit_code>>

\* Line 65: return matches, to main or to interactive_mode.
FsmReturn ==
    /\ prog = "mutatex"
    /\ pc = "fsm_chain"
    /\ chain_i > Len(structure)
    /\ pc' = IF caller = "interactive" THEN "i_matches" ELSE "q_matches"
    /\ UNCHANGED <<ioVars, prog, structure, args, sequence, res_nums, query, max_mismatches,
                   matches, exc, prev, chain_i, results, q_i, caller, spans, all_spans,
                   exit_code>>

\* -------------------------------------------------------- interactive_mode
SeqMin(s) == CHOOSE x \in {s[k] : k \in 1..Len(s)} : \A k \in 1..Len(s) : x <= s[k]
SeqMax(s) == CHOOSE x \in {s[k] : k \in 1..Len(s)} : \A k \in 1..Len(s) : x >= s[k]

NonHetero(r) == r.het = " "

\* Lines 167-175: (chain_id, residue count, min_res, max_res) of every chain
\* that has a residue which is not hetero.
RECURSIVE chain_info_from(_, _)
chain_info_from(model, k) ==
    IF k > Len(model) THEN <<>>
    ELSE LET residues == SelectSeq(model[k].residues, NonHetero)
             nums == [j \in 1..Len(residues) |-> residues[j].resseq]
         IN  (IF residues # <<>>
              THEN <<[chain_id |-> model[k].id, count |-> Len(residues),
                      min_res |-> SeqMin(nums), max_res |-> SeqMax(nums)]>>
              ELSE <<>>)
             \o chain_info_from(model, k + 1)

chain_info(model) == chain_info_from(model, 1)

\* interactive_mode returns ret to main (lines 285-287), which adds a
\* non-empty list to all_spans and goes on to the -q motifs.
IReturn(ret) ==
    /\ all_spans' = IF ret # <<>> THEN all_spans \o ret ELSE all_spans
    /\ pc' = "queries"
    /\ q_i' = 1
    /\ ResetLocals
    /\ UNCHANGED <<ioVars, prog, structure, args, matches, exc, prev, exit_code>>

\* Back to the menu of the while loop.
IMenu ==
    /\ pc' = "menu"
    /\ ResetLocals
    /\ UNCHANGED <<ioVars, prog, structure, args, matches, exc, prev, q_i, all_spans, exit_code>>

\* Lines 162-179: without any chain to show, interactive_mode returns [].
IEnter ==
    /\ prog = "mutatex"
    /\ pc = "interactive"
    /\ IF chain_info(structure) = <<>>
       THEN IReturn(<<>>)
       ELSE IMenu

\* Option 1, lines 192-199: the typed motif is stripped and upper-cased, an
\* empty one is asked for again; the typed budget counts when it is all
\* digits, else 0; then find_sequence_matches is called.
IChoice1(typed_query, typed_fuzzy) ==
    /\ prog = "mutatex"
    /\ pc = "menu"
    /\ LET q == upper(strip(typed_query))
           fuzzy == strip(typed_fuzzy)
       IN  IF q = <<>>
           THEN UNCHANGED vars
           ELSE /\ query' = q
                /\ max_mismatches' = IF isdigit(fuzzy) THEN StrNat(fuzzy) ELSE 0
                /\ caller' = "interactive"
                /\ pc' = "fsm"
                /\ UNCHANGED <<ioVars, prog, structure, args, sequence, res_nums, matches, exc,
                               prev, chain_i, results, q_i, spans, all_spans, exit_code>>

\* Lines 201-209: no match leads back to the menu; else the matches are
\* listed and their span texts kept.
IMatches ==
    /\ prog = "mutatex"
    /\ pc = "i_matches"
    /\ IF results = <<>>
       THEN IMenu
       ELSE /\ spans' = MatchSpans(results)
            /\ pc' = "use_all"
            /\ UNCHANGED <<ioVars, prog, structure, args, sequence, res_nums, query,
                           max_mismatches, matches, exc, prev, chain_i, results, q_i,
                           caller, all_spans, exit_code>>

\* Lines 211-213: 'y' returns every span.
IUseAll ==
    /\ prog = "mutatex"
    /\ pc = "use_all"
    /\ IReturn(spans)

\* Lines 214-218: any other answer asks for match numbers; the spans at the
\* numbers typed are returned, nothing typed leads back to the menu.
IUseSome(typed_selection) ==
    /\ prog = "mutatex"
    /\ pc = "use_all"
    /\ LET selected == strip(typed_selection)
       IN  IF selected # <<>>
           THEN IReturn(pick(spans, selection_indices(split(selected, ","))))
           ELSE IMenu

\* [s.strip() for s in spans_input.split(',')]
StripAll(pieces) == [k \in 1..Len(pieces) |-> strip(pieces[k])]

\* Option 2, lines 220-223: the spans typed are returned as they are.
IChoice2(typed_spans) ==
    /\ prog = "mutatex"
    /\ pc = "menu"
    /\ LET spans_input == strip(typed_spans)
       IN  IF spans_input # <<>>
           THEN IReturn(StripAll(split(spans_input, ",")))
           ELSE UNCHANGED vars

\* f"{chain_id}:{min_res}-{max_res}" for the chains picked.
ChainSpans(infos) ==
    [k \in 1..Len(infos) |->
        FormatSpan(infos[k].chain_id, infos[k].min_res, infos[k].max_res)]

\* Option 3, lines 225-238: whole chains, by their numbers in the list shown.
IChoice3(typed_selection) ==
    /\ prog = "mutatex"
    /\ pc = "menu"
    /\ LET selected == strip(typed_selection)
       IN  IF selected # <<>>
           THEN IReturn(ChainSpans(pick(chain_info(structure),
                                        selection_indices(split(selected, ",")))))
           ELSE UNCHANGED vars

\* Option 4, lines 240-241.
IChoice4 ==
    /\ prog = "mutatex"
    /\ pc = "menu"
    /\ IReturn(<<>>)

\* ----------------------------------- main, lines 314-344: parse and generate
\* c in s
contains(s, c) == \E k \in 1..Len(s) : s[k] = c

\* Lines 315-320: a span text not seen before is added to seen and appended.
RECURSIVE unique_from(_, _, _, _)
unique_from(spans_in, k, seen, kept) ==
    IF k > Len(spans_in) THEN kept
    ELSE IF spans_in[k] \notin seen
         THEN unique_from(spans_in, k + 1, seen \cup {spans_in[k]},
                          Append(kept, spans_in[k]))
         ELSE unique_from(spans_in, k + 1, seen, kept)

\* Faulty variant: every span text is appended, seen or not.
unique_keeps_repeats(spans_in) == spans_in

unique(spans_in) == unique_from(spans_in, 1, {}, <<>>)

\* Lines 70-79, one span text. ValueError is raised by the two raise
\* statements for a missing ':' or '-', by unpacking a split of other than
\* two pieces into two names, by int(), and by the raise for start > end.
parse_span(span) ==
    LET halves == split(span, ":")
        rng == halves[2]
        ends == split(rng, "-")
        start == int(ends[1])
        end == int(ends[2])
        raise == [raised |-> ValueError, value |-> <<>>]
    IN  IF ~contains(span, ":") \/ Len(halves) # 2 THEN raise
        ELSE IF ~contains(rng, "-") \/ Len(ends) # 2 THEN raise
        ELSE IF start.raised # NoException \/ end.raised # NoException THEN raise
        ELSE IF start.value > end.value THEN raise
        ELSE [raised |-> NoException, value |-> <<halves[1], start.value, end.value>>]

\* parse_residue_spans(span_list), lines 67-80: the triples of the spans, or
\* the ValueError of the first span that raises one.
RECURSIVE parse_from(_, _, _)
parse_from(span_list, k, residues) ==
    IF k > Len(span_list) THEN [raised |-> NoException, value |-> residues]
    ELSE LET p == parse_span(span_list[k])
         IN  IF p.raised # NoException THEN [raised |-> p.raised, value |-> <<>>]
             ELSE parse_from(span_list, k + 1, Append(residues, p.value))

parse_residue_spans(span_list) == parse_from(span_list, 1, <<>>)

\* model[chain_id]: the place of the chain with this id, 0 when
\* chain_id not in model. A chain id of the structure is one character.
chain_at(model, chain_id) ==
    IF \E k \in 1..Len(model) : <<model[k].id>> = chain_id
    THEN CHOOSE k \in 1..Len(model) : <<model[k].id>> = chain_id
    ELSE 0

\* [res.id[1] for res in chain if res.id[0] == ' ']
standard_res_nums(chain) ==
    LET residues == SelectSeq(chain.residues, NonHetero)
    IN  [j \in 1..Len(residues) |-> residues[j].resseq]

\* Faulty variant: only the start of the span is held against the chain.
outside_range_start_only(start, end, min_res, max_res) == start < min_res

\* Line 101: start < min_res or end > max_res.
outside_range(start, end, min_res, max_res) == start < min_res \/ end > max_res

\* Lines 88-102: the warning a span earns, if any.
span_warnings(model, span) ==
    LET k == chain_at(model, span[1])
        nums == standard_res_nums(model[k])
    IN  IF k = 0
        THEN <<[warning |-> "not found", span |-> span]>>
        ELSE IF nums = <<>>
        THEN <<[warning |-> "no standard residues", span |-> span]>>
        ELSE IF outside_range(span[2], span[3], SeqMin(nums), SeqMax(nums))
        THEN <<[warning |-> "partially outside", span |-> span]>>
        ELSE <<>>

\* validate_spans_in_structure(structure, spans), lines 82-104.
RECURSIVE validate_spans_in_structure(_, _)
validate_spans_in_structure(model, spans_in) ==
    IF spans_in = <<>> THEN <<>>
    ELSE span_warnings(model, Head(spans_in))
         \o validate_spans_in_structure(model, Tail(spans_in))

\* Faulty variant: the last residue number of a span is left out.
in_span_open_end(resseq, start, end) == start <= resseq /\ resseq < end

\* Line 124: start <= resseq <= end.
in_span(resseq, start, end) == start <= resseq /\ resseq <= end

\* Lines 119-138, one residue of the chain of a span: its entry
\* f"{one_letter}{chain_id}{resseq}", or nothing.
residue_entries(res, span, include_non_standard) ==
    LET res_3letter == ResnameUpper(res.resname)
        entry(one_letter) == <<one_letter>> \o span[1] \o IntStr(res.resseq)
    IN  IF res.het # " " THEN <<>>
        ELSE IF ~in_span(res.resseq, span[2], span[3]) THEN <<>>
        ELSE IF res_3letter \notin DOMAIN three_to_one
        THEN (IF include_non_standard THEN <<entry("X")>> ELSE <<>>)
        ELSE <<entry(three_to_one[res_3letter])>>

RECURSIVE chain_entries(_, _, _, _)
chain_entries(residues, k, span, include_non_standard) ==
    IF k > Len(residues) THEN <<>>
    ELSE residue_entries(residues[k], span, include_non_standard)
         \o chain_entries(residues, k + 1, span, include_non_standard)

\* generate_position_list, lines 109-138: pos_entries. A span whose chain is
\* not in the model is passed over.
RECURSIVE generate_position_list(_, _, _)
generate_position_list(model, spans_in, include_non_standard) ==
    IF spans_in = <<>> THEN <<>>
    ELSE LET span == Head(spans_in)
             k == chain_at(model, span[1])
         IN  (IF k = 0 THEN <<>>
              ELSE chain_entries(model[k].residues, 1, span, include_non_standard))
             \o generate_position_list(model, Tail(spans_in), include_non_standard)

\* Lines 141-144: the file opened with mode 'a' keeps what it held, opened
\* with mode 'w' it holds the entries only.
written(old, entries, append_output) ==
    IF append_output /\ old.exists THEN File(old.lines \o entries) ELSE File(entries)

\* Lines 314-322: the repeats are removed, the order is kept.
MxUnique ==
    /\ prog = "mutatex"
    /\ pc = "unique_spans"
    /\ unique_spans' = unique(all_spans)
    /\ pc' = "parse"
    /\ UNCHANGED <<prog, structure, args, sequence, res_nums, query, max_mismatches,
                   matches, exc, prev, chain_i, results, q_i, caller, spans, all_spans,
                   exit_code, files, tree, line_num, positions, seen_positions,
                   all_lines, missing, lines_to_keep, original, parsed_spans,
                   warnings, pos_entries, set_axis, axis_call>>

\* Lines 324-329: a ValueError of parse_residue_spans ends the run with
\* exit(1).
MxParse ==
    /\ prog = "mutatex"
    /\ pc = "parse"
    /\ LET r == parse_residue_spans(unique_spans)
       IN  IF r.raised # NoException
           THEN /\ pc' = "exit"
                /\ exit_code' = 1
                /\ UNCHANGED parsed_spans
           ELSE /\ parsed_spans' = r.value
                /\ pc' = "generate"
                /\ UNCHANGED exit_code
    /\ UNCHANGED <<prog, structure, args, sequence, res_nums, query, max_mismatches,
                   matches, exc, prev, chain_i, results, q_i, caller, spans, all_spans,
                   files, tree, line_num, positions, seen_positions, all_lines,
                   missing, lines_to_keep, original, unique_spans, warnings,
                   pos_entries, set_axis, axis_call>>

\* Lines 331-344: with --validate the warnings are collected and printed;
\* then the position list is generated and written; exit(1) when it is empty.
MxGenerate ==
    /\ prog = "mutatex"
    /\ pc = "generate"
    /\ warnings' = IF args.validate
                   THEN validate_spans_in_structure(structure, parsed_spans)
                   ELSE <<>>
    /\ LET entries == generate_position_list(structure, parsed_spans,
                                             args.include_non_standard)
       IN  /\ pos_entries' = entries
           /\ files' = [files EXCEPT ![PositionListPath] =
                           written(files[PositionListPath], entries, args.append_output)]
           /\ exit_code' = IF entries = <<>> THEN 1 ELSE 0
    /\ pc' = "exit"
    /\ UNCHANGED <<prog, structure, args, sequence, res_nums, query, max_mismatches,
                   matches, exc, prev, chain_i, results, q_i, caller, spans, all_spans,
                   tree, line_num, positions, seen_positions, all_lines, missing,
                   lines_to_keep, original, unique_spans, parsed_spans, set_axis,
                   axis_call>>

\* --------------------------------------------- convert_rosetta_to_mutatex.py
\* Line 232: unique_only = not args.keep_duplicates.
unique_only == ~args.keep_duplicates

\* Lines 229-233 and 83-86: main calls convert_mutinfo_to_mutatex, which
\* starts with no positions and opens the input file.
CvMain ==
    /\ prog = "convert"
    /\ pc = "main"
    /\ positions' = <<>>
    /\ seen_positions' = {}
    /\ line_num' = 1
    /\ pc' = "cv_lines"
    /\ UNCHANGED <<prog, structure, args, sequence, res_nums, query, max_mismatches,
                   matches, exc, prev, chain_i, results, q_i, caller, spans, all_spans,
                   exit_code, files, tree, all_lines, missing, lines_to_keep,
                   original, lateVars>>

\* Faulty variant: a position already seen is appended all the same.
add_position_always(found) == Append(positions, found)

\* Lines 103-108: the list after a line gave the position found.
add_position(found) ==
    IF unique_only /\ found \in seen_positions THEN positions
    ELSE Append(positions, found)

\* Lines 87-117: one line of the input file.
CvLine ==
    /\ prog = "convert"
    /\ pc = "cv_lines"
    /\ line_num <= Len(files[MutinfoPath].lines)
    /\ LET line == strip(files[MutinfoPath].lines[line_num])
           found == first_parsed(tokens(line), 1)
       IN  IF skipped_line(line) \/ found = None
           THEN UNCHANGED <<positions, seen_positions>>
           ELSE /\ positions' = add_position(found)
                /\ seen_positions' = IF unique_only
                                      THEN seen_positions \cup {found}
                                      ELSE seen_positions
    /\ line_num' = line_num + 1
    /\ UNCHANGED <<prog, pc, structure, args, sequence, res_nums, query,
                   max_mismatches, matches, exc, prev, chain_i, results, q_i, caller,
                   spans, all_spans, exit_code, files, tree, all_lines, missing,
                   lines_to_keep, original, lateVars>>

\* Lines 119-124: the positions are written, one a line, and returned.
CvWrite ==
    /\ prog = "convert"
    /\ pc = "cv_lines"
    /\ line_num > Len(files[MutinfoPath].lines)
    /\ files' = [files EXCEPT ![PositionListPath] = File(positions)]
    /\ pc' = "cv_returned"
    /\ UNCHANGED <<prog, structure, args, sequence, res_nums, query, max_mismatches,
                   matches, exc, prev, chain_i, results, q_i, caller, spans, all_spans,
                   exit_code, tree, line_num, positions, seen_positions, all_lines,
                   missing, lines_to_keep, original, lateVars>>

\* ----------------------------------------------- find_missing_replicas.py
\* The variables of the sequence search, which the file tools leave alone.
searchVars == <<structure, sequence, res_nums, query, max_mismatches, matches, exc,
                prev, chain_i, results, q_i, caller, spans, all_spans>>

\* Lines 75, 136 and 139-141.
mutinfo_path == args.mutinfo
backup == with_suffix(mutinfo_path, <<"bak">>)
cleaned_path ==
    IF args.inplace THEN mutinfo_path ELSE with_suffix(mutinfo_path, <<"cleaned", "txt">>)

\* Lines 71-88: without the flex directory or the mutinfo file the run ends
\* in sys.exit(message); else the non-blank lines are read.
FmMain ==
    /\ prog = "find_missing_replicas"
    /\ pc = "main"
    /\ IF ~tree.flex \/ ~files[mutinfo_path].exists
       THEN /\ pc' = "exit"
            /\ exit_code' = 1
            /\ UNCHANGED <<all_lines, line_num, missing, lines_to_keep>>
       ELSE /\ all_lines' = non_blank(files[mutinfo_path].lines)
            /\ missing' = <<>>
            /\ lines_to_keep' = <<>>
            /\ line_num' = 1
            /\ pc' = "fm_lines"
            /\ UNCHANGED exit_code
    /\ UNCHANGED <<prog, args, searchVars, files, tree, positions, seen_positions,
                   original, lateVars>>

\* Lines 90-117: one line of mutinfo. A line with fewer than two columns is
\* passed over with a warning; a mutation with a missing replica goes to
\* missing, the line of any other to lines_to_keep.
FmLine ==
    /\ prog = "find_missing_replicas"
    /\ pc = "fm_lines"
    /\ line_num <= Len(all_lines)
    /\ LET line == all_lines[line_num]
           cols == split(line, ",")
       IN  IF line = <<>> \/ Len(cols) < 2
           THEN UNCHANGED <<missing, lines_to_keep>>
           ELSE LET mut_id == cols[2]
                    reps == missing_reps(tree, mut_id, args.nstruct)
                IN  IF reps # <<>>
                    THEN /\ missing' = [m \in DOMAIN missing \cup {mut_id} |->
                                           IF m = mut_id THEN reps ELSE missing[m]]
                         /\ UNCHANGED lines_to_keep
                    ELSE /\ lines_to_keep' = Append(lines_to_keep, line)
                         /\ UNCHANGED missing
    /\ line_num' = line_num + 1
    /\ UNCHANGED <<prog, pc, args, searchVars, exit_code, files, tree, positions,
                   seen_positions, all_lines, original, lateVars>>

\* Faulty variant: nothing missing, nothing written.
write_redo_if_missing(fs, miss) ==
    IF DOMAIN miss = {} THEN fs
    ELSE [fs EXCEPT ![RedoPath] = File(redo_lines(miss, sorted_strings(DOMAIN miss), 1))]

\* Lines 120-124: the redo list is written anew.
write_redo(fs, miss) ==
    [fs EXCEPT ![RedoPath] = File(redo_lines(miss, sorted_strings(DOMAIN miss), 1))]

\* Lines 119-132: after the last line the redo list is written; with nothing
\* missing the run returns.
FmRedo ==
    /\ prog = "find_missing_replicas"
    /\ pc = "fm_lines"
    /\ line_num > Len(all_lines)
    /\ files' = write_redo(files, missing)
    /\ pc' = IF DOMAIN missing = {} THEN "fm_done"
             ELSE IF args.inplace THEN "fm_backup" ELSE "fm_write"
    /\ UNCHANGED <<prog, args, searchVars, exit_code, tree, line_num, positions,
                   seen_positions, all_lines, missing, lines_to_keep, original, lateVars>>

\* Lines 135-139, --inplace: the mutinfo file is renamed to the backup.
FmBackup ==
    /\ prog = "find_missing_replicas"
    /\ pc = "fm_backup"
    /\ files' = rename(files, mutinfo_path, backup)
    /\ pc' = "fm_write"
    /\ UNCHANGED <<prog, args, searchVars, exit_code, tree, line_num, positions,
                   seen_positions, all_lines, missing, lines_to_keep, original, lateVars>>

\* Lines 143-146: the kept lines are written to the cleaned path.
FmWrite ==
    /\ prog = "find_missing_replicas"
    /\ pc = "fm_write"
    /\ files' = [files EXCEPT ![cleaned_path] = File(lines_to_keep)]
    /\ pc' = "fm_done"
    /\ UNCHANGED <<prog, args, searchVars, exit_code, tree, line_num, positions,
                   seen_positions, all_lines, missing, lines_to_keep, original, lateVars>>

\* --------------------------------------------------------- patch_plotting.py
\* What patch_plotting.py leaves alone.
otherVars == <<prog, structure, args, sequence, res_nums, query, max_mismatches,
               matches, prev, chain_i, results, q_i, caller, spans, all_spans,
               exit_code, files, tree, line_num, positions, seen_positions, all_lines,
               missing, lines_to_keep, original, unique_spans, parsed_spans, warnings,
               pos_entries>>

\* Lines 16-18 and 56-58: the originals are kept and plotting.set_axis and
\* plotting.plot_total_heatmap are replaced; then rosetta_ddg_plot.main runs.
PpImport ==
    /\ prog = "patch_plotting"
    /\ pc = "import"
    /\ set_axis' = PatchedSetAxis
    /\ pc' = "main"
    /\ UNCHANGED <<otherVars, exc, axis_call>>

\* plotting.set_axis is called, by plot_total_heatmap or by another plotting
\* function.
PpSetAxis(axis, ticks, ticklabels) ==
    /\ prog = "patch_plotting"
    /\ pc \in {"main", "in_original"}
    /\ axis_call' = set_axis_call(set_axis, axis, ticks, ticklabels)
    /\ UNCHANGED <<otherVars, pc, exc, set_axis>>

\* Lines 35-45, a call of plotting.plot_total_heatmap: with a figsize the
\* figure is created first, which may raise; then set_axis is replaced and
\* the original plot_total_heatmap is entered.
PpHeatmap(figsize) ==
    /\ prog = "patch_plotting"
    /\ pc = "main"
    /\ IF figsize = "invalid"
       THEN /\ exc' = FigureError
            /\ pc' = "raised"
            /\ UNCHANGED set_axis
       ELSE /\ set_axis' = PatchedSetAxis
            /\ pc' = "in_original"
            /\ UNCHANGED exc
    /\ UNCHANGED <<otherVars, axis_call>>

\* Lines 46-49: the original plot_total_heatmap returns.
PpOriginalReturns ==
    /\ prog = "patch_plotting"
    /\ pc = "in_original"
    /\ pc' = "finally"
    /\ UNCHANGED <<otherVars, exc, set_axis, axis_call>>

\* Lines 46-49: the original plot_total_heatmap raises.
PpOriginalRaises ==
    /\ prog = "patch_plotting"
    /\ pc = "in_original"
    /\ exc' = PlotError
    /\ pc' = "finally"
    /\ UNCHANGED <<otherVars, set_axis, axis_call>>

\* Lines 50-54: the finally clause, then the result is returned or the
\* exception goes on to the caller.
PpFinally ==
    /\ prog = "patch_plotting"
    /\ pc = "finally"
    /\ set_axis' = finally_restores(set_axis)
    /\ pc' = IF exc = NoException THEN "returned" ELSE "raised"
    /\ UNCHANGED <<otherVars, exc, axis_call>>

\* The caller goes on after the call, having caught what it raised.
PpResume ==
    /\ prog = "patch_plotting"
    /\ pc \in {"returned", "raised"}
    /\ exc' = NoException
    /\ pc' = "main"
    /\ UNCHANGED <<otherVars, set_axis, axis_call>>

Next ==
    \/ CallFindMatches
    \/ \E m \in Budgets : CallAgain(m)
    \/ GpsMain
    \/ GpsFindSpans
    \/ GpsExtract
    \/ GpsMatch
    \/ GpsReport
    \/ MxMain
    \/ MxQueryNext
    \/ MxQueryMatches
    \/ MxCollected
    \/ MxUnique
    \/ MxParse
    \/ MxGenerate
    \/ FsmEnter
    \/ FsmExtract
    \/ FsmScan
    \/ FsmReturn
    \/ IEnter
    \/ \E tq \in TypedQueries, tf \in TypedFuzzy : IChoice1(tq, tf)
    \/ IMatches
    \/ IUseAll
    \/ \E ts \in TypedSelections : IUseSome(ts)
    \/ \E tx \in TypedSpans : IChoice2(tx)
    \/ \E ts \in TypedSelections : IChoice3(ts)
    \/ IChoice4
    \/ CvMain
    \/ CvLine
    \/ CvWrite
    \/ FmMain
    \/ FmLine
    \/ FmRedo
    \/ FmBackup
    \/ FmWrite
    \/ PpImport
    \/ \E axis \in Axes, ticks \in TickArguments, ticklabels \in LabelArguments :
          PpSetAxis(axis, ticks, ticklabels)
    \/ \E figsize \in Figsizes : PpHeatmap(figsize)
    \/ PpOriginalReturns
    \/ PpOriginalRaises
    \/ PpFinally
    \/ PpResume

Spec == Init /\ [][Next]_vars

\* ------------------------------------------------- what the claims speak of
\* Stated apart from the code above: windows, distances and expected lists
\* are given as sets and counts, not as the loop computes them.
Count(s, x) == Cardinality({k \in 1..Len(s) : s[k] = x})

KthSmallest(S, k) == CHOOSE x \in S : Cardinality({y \in S : y < x}) = k - 1

\* The window start indices 0 .. len(seq) - len(q).
WindowStarts(seq, q) == 0 .. (Len(seq) - Len(q))

\* The Hamming distance of q to the window of seq that starts at index i.
Distance(seq, q, i) == Cardinality({k \in 1..Len(q) : q[k] # seq[i + k]})

Qualifying(seq, q, budget) ==
    {i \in WindowStarts(seq, q) : Distance(seq, q, i) <= budget}

\* (res_nums[i], res_nums[i + len(q) - 1], d), for a non-empty q.
ExpectedTuple(seq, nums, q, i) ==
    <<nums[i + 1], nums[i + Len(q)], Distance(seq, q, i)>>

\* The tuples of the qualifying windows, by rising start index.
ExpectedList(seq, nums, q, budget) ==
    [k \in 1..Cardinality(Qualifying(seq, q, budget)) |->
        ExpectedTuple(seq, nums, q, KthSmallest(Qualifying(seq, q, budget), k))]

\* find_matches, called directly, has returned or raised.
Returned == prog = "find_matches" /\ pc = "returned"

\* The inputs the contract names: lists of equal length, a non-empty query.
ContractLists == Len(sequence) = Len(res_nums) /\ Len(query) >= 1

\* C1: for equal-length sequence and res_nums, a non-empty query and a budget
\* >= 0, find_matches returns exactly one tuple (res_nums[i],
\* res_nums[i+len(query)-1], d) per window start i whose distance d is within
\* the budget, and no tuple for a window with d above it.
C1_OneTuplePerQualifyingWindow ==
    (Returned /\ ContractLists /\ max_mismatches >= 0) =>
        /\ exc = NoException
        /\ Len(matches) = Cardinality(Qualifying(sequence, query, max_mismatches))
        /\ \A k \in 1..Len(matches) :
              \E i \in Qualifying(sequence, query, max_mismatches) :
                 matches[k] = ExpectedTuple(sequence, res_nums, query, i)
        /\ \A i \in WindowStarts(sequence, query) :
              Count(matches, ExpectedTuple(sequence, res_nums, query, i)) =
                 Cardinality({j \in Qualifying(sequence, query, max_mismatches) :
                                 ExpectedTuple(sequence, res_nums, query, j) =
                                 ExpectedTuple(sequence, res_nums, query, i)})

\* A call with a window inside the budget, at distance > 0, and one outside it.
C1_Witness ==
    /\ Returned /\ ContractLists /\ max_mismatches >= 0
    /\ Qualifying(sequence, query, max_mismatches) # {}
    /\ Qualifying(sequence, query, max_mismatches) # WindowStarts(sequence, query)
    /\ \E k \in 1..Len(matches) : matches[k][3] > 0

\* C2: with len(Q) <= len(S), a non-empty Q and max_mismatches = len(Q), every
\* window qualifies: find_matches returns len(S) - len(Q) + 1 matches.
C2_FullBudgetReturnsEveryWindow ==
    (/\ Returned /\ ContractLists
     /\ Len(query) <= Len(sequence)
     /\ max_mismatches = Len(query)) =>
        /\ exc = NoException
        /\ Len(matches) = Len(sequence) - Len(query) + 1

\* Such a call with several windows, one of them differing from the query in
\* every position.
C2_Witness ==
    /\ Returned /\ ContractLists
    /\ Len(query) < Len(sequence)
    /\ max_mismatches = Len(query)
    /\ \E i \in WindowStarts(sequence, query) : Distance(sequence, query, i) = Len(query)
    /\ Len(matches) >= 2

\* C3: a (non-empty) query equal to the window of S that starts at index i is
\* reported for that window with mismatch count 0 when max_mismatches = 0.
C3_ExactWindowReported ==
    (Returned /\ ContractLists /\ max_mismatches = 0) =>
        \A i \in WindowStarts(sequence, query) :
            SubSeq(sequence, i + 1, i + Len(query)) = query =>
                /\ exc = NoException
                /\ \E k \in 1..Len(matches) :
                      matches[k] = <<res_nums[i + 1], res_nums[i + Len(query)], 0>>

\* The query is a window that is not the first one, and another window differs.
C3_Witness ==
    /\ Returned /\ ContractLists /\ max_mismatches = 0
    /\ \E i \in WindowStarts(sequence, query) :
          /\ i > 0
          /\ SubSeq(sequence, i + 1, i + Len(query)) = query
    /\ \E i \in WindowStarts(sequence, query) :
          SubSeq(sequence, i + 1, i + Len(query)) # query
    /\ matches # <<>>

\* C4: for the same sequence, res_nums and query, a call with a budget m' >= m
\* returns at least as many matches as the call with budget m.
C4_Monotone ==
    (/\ Returned /\ prev.called
     /\ prev.exc = NoException /\ exc = NoException
     /\ prev.max_mismatches <= max_mismatches) =>
        prev.count <= Len(matches)

\* The larger budget lets windows in that the smaller one kept out.
C4_Witness ==
    /\ Returned /\ prev.called
    /\ prev.exc = NoException /\ exc = NoException
    /\ prev.max_mismatches < max_mismatches
    /\ 0 < prev.count
    /\ prev.count < Len(matches)

\* The entry of structure whose chain has the id given.
ChainOf(id) == CHOOSE c \in {structure[k] : k \in 1..Len(structure)} : c.id = id

\* What find_sequence_matches owes for the chains from the k-th on: for each
\* chain as long as the query, its qualifying windows by rising start index.
RECURSIVE ExpectedRecords(_)
ExpectedRecords(k) ==
    IF k > Len(structure) THEN <<>>
    ELSE LET e == extract_chain_sequence(structure[k].residues)
             ts == ExpectedList(e.sequence, e.res_nums, query, max_mismatches)
             Q == Qualifying(e.sequence, query, max_mismatches)
         IN  [j \in 1..Len(ts) |->
                 [chain_id |-> structure[k].id, start_resnum |-> ts[j][1],
                  end_resnum |-> ts[j][2], mismatches |-> ts[j][3],
                  sequence |-> SubSeq(e.sequence, KthSmallest(Q, j) + 1,
                                      KthSmallest(Q, j) + Len(query))]]
             \o ExpectedRecords(k + 1)

\* find_sequence_matches has returned its matches (in results).
FsmReturned == prog = "mutatex" /\ pc \in {"q_matches", "i_matches"}

\* C5: the matches come in rising order of window start index, whatever the
\* residue numbers do, and every qualifying window is in the list, also one
\* that overlaps another or yields the same tuple: the list is the qualifying
\* windows' tuples from left to right (find_matches), chain after chain
\* (find_sequence_matches).
C5_ScanOrderNothingSuppressed ==
    /\ (Returned /\ ContractLists /\ exc = NoException) =>
          matches = ExpectedList(sequence, res_nums, query, max_mismatches)
    /\ (FsmReturned /\ Len(query) >= 1) => results = ExpectedRecords(1)

\* Overlapping windows both reported, with residue numbers that fall.
C5_Witness ==
    /\ Returned /\ ContractLists /\ exc = NoException
    /\ Len(query) >= 2
    /\ Len(matches) >= 2
    /\ matches[1][1] > matches[2][1]
    /\ matches[1] # matches[2]

\* The number of residues extract_chain_sequence keeps of the chain with this id.
ChainLength(id) == Len(extract_chain_sequence(ChainOf(id).residues).sequence)

\* find_spans_in_pdb or find_sequence_matches is collecting the matches of
\* query over the chains, or has returned them.
Collecting ==
    \/ prog = "gen_pdb_span" /\ pc \in {"chain", "chain_match", "exit", "crashed"}
    \/ prog = "mutatex" /\ pc \in {"fsm_chain", "fsm_scan", "q_matches", "i_matches",
                                   "use_all", "crashed"}

\* C6: with len(sequence) < len(query) find_matches returns an empty list and
\* does not raise, whatever the budget; and no match collected by
\* find_spans_in_pdb or find_sequence_matches lies on a chain shorter than
\* the query.
C6_ShortSequenceNoMatch ==
    /\ (Returned /\ Len(sequence) < Len(query)) =>
          (exc = NoException /\ matches = <<>>)
    /\ Collecting =>
          \A k \in 1..Len(results) : ChainLength(results[k].chain_id) >= Len(query)

\* A non-empty sequence shorter than the query, with the largest budget.
C6_Witness ==
    /\ Returned
    /\ 0 < Len(sequence)
    /\ Len(sequence) < Len(query)
    /\ max_mismatches = MaxQLen
    /\ Len(res_nums) > Len(sequence)

\* C7: with max_mismatches = 0 every match returned is the tuple of a window
\* equal to the query, with mismatch count 0, and there are as many matches as
\* such windows: no window that differs from the query is returned.
C7_ZeroBudgetExact ==
    (Returned /\ Len(query) >= 1 /\ exc = NoException /\ max_mismatches = 0) =>
        LET Exact == {i \in WindowStarts(sequence, query) :
                         SubSeq(sequence, i + 1, i + Len(query)) = query}
        IN  /\ Len(matches) = Cardinality(Exact)
            /\ \A k \in 1..Len(matches) :
                  /\ matches[k][3] = 0
                  /\ \E i \in Exact :
                        /\ matches[k][1] = res_nums[i + 1]
                        /\ matches[k][2] = res_nums[i + Len(query)]

\* A window equal to the query and one that differs in its last position only.
C7_Witness ==
    /\ Returned /\ ContractLists /\ exc = NoException /\ max_mismatches = 0
    /\ Len(query) >= 2
    /\ matches # <<>>
    /\ \E i \in WindowStarts(sequence, query) :
          /\ sequence[i + Len(query)] # query[Len(query)]
          /\ SubSeq(sequence, i + 1, i + Len(query) - 1) = SubSeq(query, 1, Len(query) - 1)

\* C8: find_matches never raises, whatever it is called with (an empty
\* query, res_nums shorter than sequence, a negative budget, characters
\* outside the 20 codes).
C8_NeverRaises == Returned => exc = NoException

\* The matcher is being invoked: find_spans_in_pdb or find_sequence_matches
\* has just been called.
MatcherInvoked ==
    \/ prog = "gen_pdb_span" /\ pc = "find_spans_in_pdb"
    \/ prog = "mutatex" /\ pc = "fsm"

\* C9 as claimed: on every path to the matcher the query has been checked, so
\* the matcher is never invoked with a character outside the 20 codes.
C9_EveryCallerValidates == MatcherInvoked => ~InvalidQuery(upper(query))

\* C9 amended: gen_pdb_span.main checks the query and leaves with exit(1)
\* before find_spans_in_pdb is called when a character is outside the 20
\* codes; the query find_spans_in_pdb and find_matches see has none.
C9_GenPdbSpanValidates ==
    prog = "gen_pdb_span" =>
        /\ (pc # "main" /\ InvalidQuery(upper(args.sequence))) =>
              (pc = "exit" /\ exit_code = 1 /\ results = <<>> /\ chain_i = 0)
        /\ pc \in {"find_spans_in_pdb", "chain", "chain_match", "crashed"} =>
              \A k \in 1..Len(query) : query[k] \in StandardAA

\* A query whose second character is no standard code has been rejected.
C9_Witness ==
    /\ prog = "gen_pdb_span"
    /\ pc = "exit"
    /\ exit_code = 1
    /\ Len(args.sequence) = 2
    /\ args.sequence[1] \in StandardAA

\* The code of a residue name: its one-letter code, 'X' when it has none.
CodeOf(resname) ==
    IF ResnameUpper(resname) \in DOMAIN three_to_one
    THEN three_to_one[ResnameUpper(resname)] ELSE "X"

\* extract_chain_sequence has just returned (to find_spans_in_pdb or to
\* find_sequence_matches) for the chain at chain_i.
Extracted ==
    \/ prog = "gen_pdb_span" /\ pc = "chain_match"
    \/ prog = "mutatex" /\ pc = "fsm_scan"

\* C10: the two lists extract_chain_sequence returns are equally long, and
\* their k-th entries are the code and the number of the chain's k-th residue
\* that is not hetero; a hetero residue is in neither list.
C10_ListsAligned ==
    Extracted =>
        LET kept == SelectSeq(structure[chain_i].residues, NonHetero)
        IN  /\ Len(sequence) = Len(res_nums)
            /\ Len(sequence) = Len(kept)
            /\ \A k \in 1..Len(kept) :
                  /\ sequence[k] = CodeOf(kept[k].resname)
                  /\ res_nums[k] = kept[k].resseq

\* A chain with a water ahead of a residue that is kept.
C10_Witness ==
    /\ Extracted
    /\ Len(structure[chain_i].residues) >= 2
    /\ structure[chain_i].residues[1].het # " "
    /\ Len(sequence) = 1

\* The 20 standard amino acids: the name in capitals, as some files spell
\* it, and the one-letter code.
StandardResidues ==
    {<<"ALA", "Ala", "A">>, <<"CYS", "Cys", "C">>, <<"ASP", "Asp", "D">>,
     <<"GLU", "Glu", "E">>, <<"PHE", "Phe", "F">>, <<"GLY", "Gly", "G">>,
     <<"HIS", "His", "H">>, <<"ILE", "Ile", "I">>, <<"LYS", "Lys", "K">>,
     <<"LEU", "Leu", "L">>, <<"MET", "Met", "M">>, <<"ASN", "Asn", "N">>,
     <<"PRO", "Pro", "P">>, <<"GLN", "Gln", "Q">>, <<"ARG", "Arg", "R">>,
     <<"SER", "Ser", "S">>, <<"THR", "Thr", "T">>, <<"VAL", "Val", "V">>,
     <<"TRP", "Trp", "W">>, <<"TYR", "Tyr", "Y">>}

IsStandard(resname) == \E t \in StandardResidues : resname \in {t[1], t[2]}
OwnCode(resname) == (CHOOSE t \in StandardResidues : resname \in {t[1], t[2]})[3]

\* C11: in what extract_chain_sequence returns, a residue that is not hetero
\* and not one of the 20 standard amino acids stands as "X" with its number
\* recorded, and a standard residue stands as its own one-letter code, which
\* is never "X".
C11_SentinelForNonStandard ==
    Extracted =>
        LET kept == SelectSeq(structure[chain_i].residues, NonHetero)
        IN  /\ Len(sequence) = Len(kept)
            /\ Len(res_nums) = Len(kept)
            /\ \A k \in 1..Len(kept) :
                  /\ res_nums[k] = kept[k].resseq
                  /\ IF IsStandard(kept[k].resname)
                     THEN sequence[k] = OwnCode(kept[k].resname) /\ sequence[k] # "X"
                     ELSE sequence[k] = "X"

\* A chain with an unknown residue and a standard one spelt in small letters.
C11_Witness ==
    /\ Extracted
    /\ \E j, k \in 1..Len(sequence) :
          /\ Len(structure[chain_i].residues) = Len(sequence)
          /\ structure[chain_i].residues[j].resname = "UNK"
          /\ sequence[j] = "X"
          /\ structure[chain_i].residues[k].resname = "Gly"
          /\ sequence[k] = "G"

\* C12: GFTFSRAS numbered 31..38, searched for GFTF with no mismatch allowed,
\* gives the one match (31, 34, 0).
C12_ExactExample ==
    (/\ Returned
     /\ sequence = <<"G", "F", "T", "F", "S", "R", "A", "S">>
     /\ res_nums = <<31, 32, 33, 34, 35, 36, 37, 38>>
     /\ query = <<"G", "F", "T", "F">>
     /\ max_mismatches = 0)
    => (exc = NoException /\ matches = << <<31, 34, 0>> >>)

\* The search for GFTF with budget 0 has returned its match.
C12_Witness ==
    /\ Returned
    /\ sequence = <<"G", "F", "T", "F", "S", "R", "A", "S">>
    /\ query = <<"G", "F", "T", "F">>
    /\ max_mismatches = 0
    /\ Len(matches) = 1

\* C13: the same sequence searched for GFTX with one mismatch allowed gives
\* the match (31, 34, 1) and no other: the X, which no residue of the
\* sequence is, counts as one ordinary mismatch.
C13_FuzzyExample ==
    (/\ Returned
     /\ sequence = <<"G", "F", "T", "F", "S", "R", "A", "S">>
     /\ res_nums = <<31, 32, 33, 34, 35, 36, 37, 38>>
     /\ query = <<"G", "F", "T", "X">>
     /\ max_mismatches = 1)
    => (exc = NoException /\ matches = << <<31, 34, 1>> >>)

\* The search for GFTX with budget 1 has returned a match with a mismatch.
C13_Witness ==
    /\ Returned
    /\ sequence = <<"G", "F", "T", "F", "S", "R", "A", "S">>
    /\ query = <<"G", "F", "T", "X">>
    /\ max_mismatches = 1
    /\ \E k \in 1..Len(matches) : matches[k][3] = 1

\* convert_mutinfo_to_mutatex has returned.
Converted == prog = "convert" /\ pc = "cv_returned"

Range(s) == {s[k] : k \in 1..Len(s)}

\* The documented formats: H.S.214, H.S.214.A, H-S214A and H S 214.
DocumentedFormats ==
    {<<"H", ".", "S", ".", "2", "1", "4">>,
     <<"H", ".", "S", ".", "2", "1", "4", ".", "A">>,
     <<"H", "-", "S", "2", "1", "4", "A">>,
     <<"H", " ", "S", " ", "2", "1", "4">>}

\* C14: each of the four documented position formats, on a line of the input,
\* yields the MutateX position SH214.
C14_DocumentedFormatsAccepted ==
    Converted =>
        \A k \in 1..Len(files[MutinfoPath].lines) :
            files[MutinfoPath].lines[k] \in DocumentedFormats
                => <<"S", "H", "2", "1", "4">> \in Range(positions)

\* The tokens of the line at index k that parse, by their place in the line.
ParsingTokens(k) ==
    {t \in 1..Len(tokens(files[MutinfoPath].lines[k])) :
        parse_rosetta_position(tokens(files[MutinfoPath].lines[k])[t]).raised = NoException}

\* Tokens that name no chain: S657A and S657.
ChainlessTokens == {<<"S", "6", "5", "7", "A">>, <<"S", "6", "5", "7">>}

\* C15: a line adds at most one position to the list, the one of its leftmost
\* token that parses; a token without a chain never parses; a line of which no
\* token parses adds nothing, and the next line is read.
C15_FirstParsingTokenOnly ==
    [][(prog = "convert" /\ pc = "cv_lines" /\ line_num' = line_num + 1) =>
          LET toks == tokens(files[MutinfoPath].lines[line_num])
              parsing == ParsingTokens(line_num)
          IN  /\ Len(positions') <= Len(positions) + 1
              /\ SubSeq(positions', 1, Len(positions)) = positions
              /\ Len(positions') = Len(positions) + 1 =>
                    /\ parsing # {}
                    /\ positions'[Len(positions')] =
                          mutatex_format(parse_rosetta_position(
                              toks[CHOOSE t \in parsing : \A u \in parsing : t <= u]))
              /\ parsing = {} => positions' = positions
              /\ \A t \in 1..Len(toks) : toks[t] \in ChainlessTokens => t \notin parsing
              /\ pc' = "cv_lines"]_vars

\* The line "S657A, H-S214A" has given SH214, the position of its second token.
C15_Witness ==
    /\ prog = "convert"
    /\ pc = "cv_lines"
    /\ line_num = 2
    /\ files[MutinfoPath].lines[1] = <<"S", "6", "5", "7", "A", ",", " ", "H", "-", "S", "2", "1", "4", "A">>
    /\ positions = <<<<"S", "H", "2", "1", "4">>>>

\* The position of every line that is no comment and has a token that parses,
\* in the order of the lines.
LinePositions ==
    LET per_line == [k \in 1..Len(files[MutinfoPath].lines) |->
                        IF skipped_line(files[MutinfoPath].lines[k]) \/ ParsingTokens(k) = {}
                        THEN None
                        ELSE mutatex_format(parse_rosetta_position(
                                 tokens(files[MutinfoPath].lines[k])[
                                     CHOOSE t \in ParsingTokens(k) :
                                         \A u \in ParsingTokens(k) : t <= u]))]
    IN  SelectSeq(per_line, LAMBDA x : x # None)

FirstIndex(s, x) == CHOOSE k \in 1..Len(s) : s[k] = x /\ \A j \in 1..(k - 1) : s[j] # x

\* C16: with unique_only the list returned and written holds each distinct
\* position once, in the order of first occurrence; without it, one entry for
\* each parsed line, in input order, duplicates and all.
C16_UniqueOrAll ==
    Converted =>
        /\ files[PositionListPath] = File(positions)
        /\ IF unique_only
           THEN /\ Range(positions) = Range(LinePositions)
                /\ \A i, j \in 1..Len(positions) : i < j =>
                      /\ positions[i] # positions[j]
                      /\ FirstIndex(LinePositions, positions[i])
                            < FirstIndex(LinePositions, positions[j])
           ELSE positions = LinePositions

\* Two lines gave the same position and unique_only kept one of them.
C16_Witness ==
    /\ Converted
    /\ unique_only
    /\ Len(LinePositions) = 2
    /\ Len(positions) = 1

\* ---- find_missing_replicas.py, as the claims speak of it
FindMissing == prog = "find_missing_replicas"

\* The non-blank lines of the mutinfo file as the run found it.
OriginalLines == SelectSeq(original.lines, LAMBDA line : strip(line) # <<>>)

\* A line names its mutation in its second comma-separated column.
HasMutation(line) == Len(split(line, ",")) >= 2
MutationOf(line) == split(line, ",")[2]

\* <flex>/<mut_id>/<rep>/ddg.db3 is there.
DbPresent(mut_id, rep) == mut_id \in tree.dirs /\ <<mut_id, rep>> \in tree.dbs

CompleteLine(line) ==
    HasMutation(line) /\ \A rep \in 1..args.nstruct : DbPresent(MutationOf(line), rep)
IncompleteLine(line) ==
    HasMutation(line) /\ \E rep \in 1..args.nstruct : ~DbPresent(MutationOf(line), rep)

SomeIncomplete ==
    original.exists /\ \E k \in 1..Len(OriginalLines) : IncompleteLine(OriginalLines[k])

\* C17: with a mutation incomplete, the cleaned mutinfo holds exactly the
\* non-blank lines of the original whose mutation has every replica's
\* ddg.db3, in their order, and a line is removed only if its mutation is
\* incomplete.
C17_CleanedKeepsCompleteLines ==
    (FindMissing /\ pc = "fm_done" /\ SomeIncomplete) =>
        /\ files[cleaned_path] = File(SelectSeq(OriginalLines, CompleteLine))
        /\ \A k \in 1..Len(OriginalLines) :
              OriginalLines[k] \notin Range(files[cleaned_path].lines)
                  => IncompleteLine(OriginalLines[k])

\* The pairs (mut_id, replica) of the mutinfo's mutations without a ddg.db3.
MissingPairs ==
    {p \in {MutationOf(OriginalLines[k]) :
               k \in {j \in 1..Len(OriginalLines) : HasMutation(OriginalLines[j])}}
           \X (1..args.nstruct) : ~DbPresent(p[1], p[2])}

RedoLine(p) == p[1] \o <<":">> \o IntStr(p[2])

PairBefore(p, q) == str_less(p[1], q[1]) \/ (p[1] = q[1] /\ p[2] < q[2])

RedoWritten == FindMissing /\ pc \in {"fm_backup", "fm_write", "fm_done"}

\* C18: the redo list has one line <mut_id>:<replica> for exactly the pairs
\* with replica in 1..nstruct whose ddg.db3 is absent, none twice, ordered by
\* mut_id and then by rising replica number.
C18_RedoListExact ==
    RedoWritten =>
        LET redo == files[RedoPath].lines
        IN  /\ files[RedoPath].exists
            /\ Range(redo) = {RedoLine(p) : p \in MissingPairs}
            /\ Len(redo) = Cardinality(MissingPairs)
            /\ \A i, j \in 1..Len(redo) : i < j =>
                  \E p, q \in MissingPairs :
                      redo[i] = RedoLine(p) /\ redo[j] = RedoLine(q) /\ PairBefore(p, q)

\* Both mutations lack replicas: m10 comes before m2, replica 1 before 2.
C18_Witness ==
    /\ RedoWritten
    /\ Len(files[RedoPath].lines) >= 3
    /\ files[RedoPath].lines[1] = <<"m", "1", "0", ":", "1">>
    /\ files[RedoPath].lines[2] = <<"m", "1", "0", ":", "2">>
    /\ files[RedoPath].lines[Len(files[RedoPath].lines)] = <<"m", "2", ":", "2">>

\* C19: a run that got past the checks for the flex directory and the
\* mutinfo file has written the redo list anew, empty when no replica is
\* missing: no line of an earlier run is left in it.
C19_RedoAlwaysRewritten ==
    (FindMissing /\ pc = "fm_done") =>
        /\ files[RedoPath].exists
        /\ MissingPairs = {} => files[RedoPath].lines = <<>>
        /\ \A k \in 1..Len(files[RedoPath].lines) :
              \E p \in MissingPairs : files[RedoPath].lines[k] = RedoLine(p)

\* A run over complete mutations has ended with an empty redo list.
C19_Witness ==
    /\ FindMissing
    /\ pc = "fm_done"
    /\ lines_to_keep # <<>>
    /\ DOMAIN missing = {}
    /\ files[RedoPath] = File(<<>>)

\* C20: under --inplace with a mutation incomplete, the original content is
\* at every step in the mutinfo file or in the backup, and after the run the
\* backup holds it unchanged.
C20_BackupHoldsOriginal ==
    (/\ FindMissing
     /\ args.inplace
     /\ SomeIncomplete
     /\ pc \in {"fm_lines", "fm_backup", "fm_write", "fm_done"}) =>
        /\ original \in {files[mutinfo_path], files[backup]}
        /\ pc = "fm_done" => files[backup] = original

\* ------------------------------------------ the position list of MutateX
\* generate_position_list has run: the spans were parsed and the run ended.
Generated == prog = "mutatex" /\ pc = "exit" /\ parsed_spans # <<>>

\* The residues of the chain the i-th parsed span names; none when no chain
\* of the structure has the id.
SpanChain(i) ==
    IF \E c \in Range(structure) : <<c.id>> = parsed_spans[i][1]
    THEN (CHOOSE c \in Range(structure) : <<c.id>> = parsed_spans[i][1]).residues
    ELSE <<>>

\* The k-th residue of the chain of the i-th span earns an entry.
EarnsEntry(i, k) ==
    LET r == SpanChain(i)[k]
    IN  /\ r.het = " "
        /\ parsed_spans[i][2] <= r.resseq
        /\ r.resseq <= parsed_spans[i][3]
        /\ IsStandard(r.resname) \/ args.include_non_standard

EntryPlaces ==
    UNION {{<<i, k>> : k \in {j \in 1..Len(SpanChain(i)) : EarnsEntry(i, j)}} :
              i \in 1..Len(parsed_spans)}

\* Span after span, and within a span in chain order.
PlaceBefore(p, q) == p[1] < q[1] \/ (p[1] = q[1] /\ p[2] < q[2])
PlaceRank(p) == Cardinality({q \in EntryPlaces : PlaceBefore(q, p)}) + 1

\* '<one-letter><chain><resnum>'; a non-standard residue that is included
\* has the letter X.
EntryOf(p) ==
    LET r == SpanChain(p[1])[p[2]]
    IN  <<IF IsStandard(r.resname) THEN OwnCode(r.resname) ELSE "X">>
        \o parsed_spans[p[1]][1] \o IntStr(r.resseq)

\* The last n lines of the output file.
LastLines(n) ==
    LET lines == files[PositionListPath].lines
    IN  SubSeq(lines, Len(lines) - n + 1, Len(lines))

\* C21: generate_position_list returns and writes, span after span in the
\* order given and within a span in chain order, one entry
\* '<one-letter><chain><resnum>' for each residue of the span's chain that is
\* not hetero, is standard (or include_non_standard is set) and whose number
\* lies in start..end; no other residue gives an entry. The entries are the
\* last lines of the output file, and all of it without --append-output.
C21_EntriesOfSpans ==
    Generated =>
        /\ Len(pos_entries) = Cardinality(EntryPlaces)
        /\ \A p \in EntryPlaces : pos_entries[PlaceRank(p)] = EntryOf(p)
        /\ files[PositionListPath].exists
        /\ Len(files[PositionListPath].lines) >= Len(pos_entries)
        /\ LastLines(Len(pos_entries)) = pos_entries
        /\ ~args.append_output => files[PositionListPath].lines = pos_entries

\* Two spans give entries, and a residue of a span's chain gives none.
C21_Witness ==
    /\ Generated
    /\ \E p, q \in EntryPlaces : p[1] < q[1]
    /\ \E i \in 1..Len(parsed_spans) :
          \E k \in 1..Len(SpanChain(i)) : ~EarnsEntry(i, k)

\* The numbers of the residues of the i-th span's chain that are not hetero.
ChainNumbers(i) == {SpanChain(i)[k].resseq : k \in {j \in 1..Len(SpanChain(i)) :
                                                      SpanChain(i)[j].het = " "}}

\* The i-th span is to be warned of: its chain is absent or has no residue
\* that is not hetero, or the span reaches below the chain's lowest number
\* or above its highest.
Warned(i) ==
    \/ ~\E c \in Range(structure) : <<c.id>> = parsed_spans[i][1]
    \/ ChainNumbers(i) = {}
    \/ \A n \in ChainNumbers(i) : parsed_spans[i][2] < n
    \/ \A n \in ChainNumbers(i) : parsed_spans[i][3] > n

WarnedSpans == {i \in 1..Len(parsed_spans) : Warned(i)}

\* C22: with --validate the warnings are one for each span that is to be
\* warned of, in the order of the spans, and none for any other span; and
\* with or without warnings the position list is generated and written from
\* the residues inside the spans.
C22_WarningsExactAndHarmless ==
    (Generated /\ args.validate) =>
        /\ Len(warnings) = Cardinality(WarnedSpans)
        /\ \A j \in 1..Len(warnings) :
              warnings[j].span = parsed_spans[KthSmallest(WarnedSpans, j)]
        /\ Len(pos_entries) = Cardinality(EntryPlaces)
        /\ files[PositionListPath].exists
        /\ LastLines(Len(pos_entries)) = pos_entries

\* A span reaching beyond its chain is warned of, another span is not, and
\* the warned span still gives an entry.
C22_Witness ==
    /\ Generated
    /\ args.validate
    /\ \E i \in WarnedSpans : \E p \in EntryPlaces : p[1] = i
    /\ \E i \in 1..Len(parsed_spans) : i \notin WarnedSpans

\* The span texts of the matches of motif q, chain after chain, each chain's
\* qualifying windows from left to right.
RECURSIVE QuerySpans(_, _)
QuerySpans(q, k) ==
    IF k > Len(structure) \/ q = <<>> THEN <<>>
    ELSE LET e == extract_chain_sequence(structure[k].residues)
             ts == ExpectedList(e.sequence, e.res_nums, upper(q), args.fuzzy)
         IN  [j \in 1..Len(ts) |-> FormatSpan(structure[k].id, ts[j][1], ts[j][2])]
             \o QuerySpans(q, k + 1)

\* The span texts of the -q motifs from the n-th on, in command-line order.
RECURSIVE QueriesSpans(_)
QueriesSpans(n) ==
    IF n > Len(args.query) THEN <<>>
    ELSE QuerySpans(args.query[n], 1) \o QueriesSpans(n + 1)

\* parse_residue_spans is being handed unique_spans.
Handed == prog = "mutatex" /\ pc = "parse"

\* C24: the list handed to parse_residue_spans holds every span text
\* collected exactly once and nothing else, in the order of first
\* occurrence in the collection; and the collection is the interactive
\* selections, then the matches of each -q motif in command-line order and
\* scan order, then the -s spans.
C24_UniqueInCollectionOrder ==
    Handed =>
        /\ \A k \in 1..Len(all_spans) : Count(unique_spans, all_spans[k]) = 1
        /\ Range(unique_spans) \subseteq Range(all_spans)
        /\ \A i, j \in 1..Len(unique_spans) :
              i < j => FirstIndex(all_spans, unique_spans[i])
                           < FirstIndex(all_spans, unique_spans[j])
        /\ LET tail == QueriesSpans(1) \o args.spans
           IN  /\ Len(all_spans) >= Len(tail)
               /\ SubSeq(all_spans, Len(all_spans) - Len(tail) + 1, Len(all_spans)) = tail
               /\ ~args.interactive => Len(all_spans) = Len(tail)

\* Spans came from the interactive selection, from a -q motif and from -s,
\* and a repeat was removed.
C24_Witness ==
    /\ Handed
    /\ args.interactive
    /\ QueriesSpans(1) # <<>>
    /\ args.spans # <<>>
    /\ Len(all_spans) > Len(QueriesSpans(1)) + Len(args.spans)
    /\ Len(unique_spans) < Len(all_spans)
    /\ Len(unique_spans) >= 2

\* C26: the span text built from a match is accepted by parse_residue_spans
\* and parses back to the chain, start and end of the match, whatever the
\* residue numbers of the chain are.
C26_SpanRoundTrip ==
    FsmReturned =>
        \A k \in 1..Len(results) :
            LET m == results[k]
                p == parse_span(FormatSpan(m.chain_id, m.start_resnum, m.end_resnum))
            IN  /\ p.raised = NoException
                /\ p.value = <<<<m.chain_id>>, m.start_resnum, m.end_resnum>>

\* ------------------------------------------------------- the plotting patch
\* patched_set_axis was called with tick labels.
PatchedCall ==
    /\ prog = "patch_plotting"
    /\ axis_call.called
    /\ axis_call.through = PatchedSetAxis
    /\ ~axis_call.ticklabels.is_none

\* C23: in every call of patched_set_axis with tick labels, the ticks handed
\* on to the original set_axis are as many as the tick labels, on either
\* axis, with ticks supplied by the caller or not.
C23_TicksMatchLabels ==
    PatchedCall =>
        /\ ~axis_call.passed.is_none
        /\ Len(axis_call.passed.items) = Len(axis_call.ticklabels.items)

\* patched_plot_total_heatmap has returned, or has raised.
HeatmapReturned == prog = "patch_plotting" /\ pc = "returned"
HeatmapRaised == prog = "patch_plotting" /\ pc = "raised"
InOriginal == prog = "patch_plotting" /\ pc = "in_original"

\* C25 as stated: set_axis is patched_set_axis while the original
\* plot_total_heatmap runs, and it is the original set_axis whenever
\* patched_plot_total_heatmap has returned or raised.
C25_RestoredOnReturnOrRaise ==
    /\ InOriginal => set_axis = PatchedSetAxis
    /\ (HeatmapReturned \/ HeatmapRaised) => set_axis = OriginalSetAxis

\* C25, amended: set_axis is patched_set_axis while the original
\* plot_total_heatmap runs, and it is the original set_axis when
\* patched_plot_total_heatmap has returned or has raised what the original
\* plot_total_heatmap raised.
C25_RestoredAfterOriginal ==
    /\ InOriginal => set_axis = PatchedSetAxis
    /\ HeatmapReturned => set_axis = OriginalSetAxis
    /\ (HeatmapRaised /\ exc = PlotError) => set_axis = OriginalSetAxis

\* The original plot_total_heatmap raised and the binding was restored.
C25_Witness == HeatmapRaised /\ exc = PlotError /\ set_axis = OriginalSetAxis
====
